---- MODULE Spec2Model ----
(***************************************************************************)
(* A model of the retro-sfx daemon (src/retro-sfxd.py) and of the control  *)
(* tool that edits its persisted state (src/retro-sfxctl.py).              *)
(*                                                                         *)
(* Python strings are TLA+ strings; the string functions the code relies   *)
(* on (strip, split, startswith, int, float) are operators that compute    *)
(* what the Python functions compute.  A Python function that may raise    *)
(* returns a record whose field "out" is "ok" or the exception's name.     *)
(***************************************************************************)
EXTENDS Integers, Sequences, FiniteSets, TLC

(***************************************************************************)
(* Strings                                                                 *)
(***************************************************************************)

\* The character of s at position i (1-based), as a one-character string.
At(s, i) == SubSeq(s, i, i)

\* str.strip() with no argument removes these.
Whitespace == {" ", "\t", "\n", "\r"}

RECURSIVE LStripSet(_, _)
LStripSet(s, cs) ==
    IF Len(s) > 0 /\ At(s, 1) \in cs THEN LStripSet(SubSeq(s, 2, Len(s)), cs) ELSE s

RECURSIVE RStripSet(_, _)
RStripSet(s, cs) ==
    IF Len(s) > 0 /\ At(s, Len(s)) \in cs
    THEN RStripSet(SubSeq(s, 1, Len(s) - 1), cs) ELSE s

\* s.strip()
Strip(s) == RStripSet(LStripSet(s, Whitespace), Whitespace)

\* s.strip('"')
StripQuotes(s) == RStripSet(LStripSet(s, {"\""}), {"\""})

\* s.startswith(p), s.endswith(p)
StartsWith(s, p) == Len(p) <= Len(s) /\ SubSeq(s, 1, Len(p)) = p
EndsWith(s, p) == Len(p) <= Len(s) /\ SubSeq(s, Len(s) - Len(p) + 1, Len(s)) = p

\* The first position of the character c in s, 0 when it does not occur.
RECURSIVE FindFrom(_, _, _)
FindFrom(s, c, i) ==
    IF i > Len(s) THEN 0 ELSE IF At(s, i) = c THEN i ELSE FindFrom(s, c, i + 1)

Find(s, c) == FindFrom(s, c, 1)

\* s.split(c): every separator splits.
RECURSIVE Split(_, _)
Split(s, c) ==
    LET i == Find(s, c) IN
    IF i = 0 THEN <<s>>
    ELSE <<SubSeq(s, 1, i - 1)>> \o Split(SubSeq(s, i + 1, Len(s)), c)

\* The lines a file iteration yields: each keeps its "\n"; a last line
\* without one is yielded as it is.
RECURSIVE SplitLines(_)
SplitLines(s) ==
    LET i == Find(s, "\n") IN
    IF Len(s) = 0 THEN <<>>
    ELSE IF i = 0 THEN <<s>>
    ELSE <<SubSeq(s, 1, i)>> \o SplitLines(SubSeq(s, i + 1, Len(s)))

Digits == {"0", "1", "2", "3", "4", "5", "6", "7", "8", "9"}

DigitVal(c) ==
    CASE c = "0" -> 0 [] c = "1" -> 1 [] c = "2" -> 2 [] c = "3" -> 3
      [] c = "4" -> 4 [] c = "5" -> 5 [] c = "6" -> 6 [] c = "7" -> 7
      [] c = "8" -> 8 [] c = "9" -> 9

DigitChar(d) ==
    CASE d = 0 -> "0" [] d = 1 -> "1" [] d = 2 -> "2" [] d = 3 -> "3"
      [] d = 4 -> "4" [] d = 5 -> "5" [] d = 6 -> "6" [] d = 7 -> "7"
      [] d = 8 -> "8" [] d = 9 -> "9"

AllDigits(s) == Len(s) > 0 /\ \A i \in 1..Len(s) : At(s, i) \in Digits

RECURSIVE DigitsVal(_)
DigitsVal(s) ==
    IF Len(s) = 0 THEN 0
    ELSE 10 * DigitsVal(SubSeq(s, 1, Len(s) - 1)) + DigitVal(At(s, Len(s)))

\* str(n) of an integer.
RECURSIVE NatStr(_)
NatStr(n) == IF n < 10 THEN DigitChar(n) ELSE NatStr(n \div 10) \o DigitChar(n % 10)

IntStr(n) == IF n < 0 THEN "-" \o NatStr(-n) ELSE NatStr(n)

\* int(s): surrounding whitespace and one sign are accepted, then decimal
\* digits; anything else raises ValueError.  (Digit-group underscores, which
\* int() also accepts, occur in no value the model reads.)
IntOfDigits(neg, body) ==
    IF AllDigits(body)
    THEN [out |-> "ok", val |-> IF neg THEN -DigitsVal(body) ELSE DigitsVal(body)]
    ELSE [out |-> "ValueError", val |-> 0]

IntOfStripped(t) ==
    IF Len(t) > 0 /\ At(t, 1) \in {"+", "-"}
    THEN IntOfDigits(At(t, 1) = "-", SubSeq(t, 2, Len(t)))
    ELSE IntOfDigits(FALSE, t)

ParseInt(s) == IntOfStripped(Strip(s))

\* Ten to the power n.
RECURSIVE Pow10(_)
Pow10(n) == IF n = 0 THEN 1 ELSE 10 * Pow10(n - 1)

\* A float is kept in thousandths.
Scale == Pow10(3)

\* float(s), in thousandths: [out, kind, val].  Decimal notation with an
\* optional sign and an optional fraction, and the words "nan" and "inf";
\* a fraction is cut after three places.  (Exponent notation, which float()
\* also accepts, occurs in no value the model reads.)
FracVal(fp) ==
    IF Len(fp) > 3 THEN DigitsVal(SubSeq(fp, 1, 3))
    ELSE DigitsVal(fp) * Pow10(3 - Len(fp))

FloatOfParts(neg, ip, fp) ==
    IF /\ Len(ip) + Len(fp) > 0
       /\ (Len(ip) = 0 \/ AllDigits(ip))
       /\ (Len(fp) = 0 \/ AllDigits(fp))
    THEN [out |-> "ok", kind |-> "num",
          val |-> (IF neg THEN -1 ELSE 1) * (DigitsVal(ip) * Scale + FracVal(fp))]
    ELSE [out |-> "ValueError", kind |-> "num", val |-> 0]

FloatOfDot(neg, body, dot) ==
    IF dot = 0 THEN FloatOfParts(neg, body, "")
    ELSE FloatOfParts(neg, SubSeq(body, 1, dot - 1), SubSeq(body, dot + 1, Len(body)))

FloatOfBody(neg, body) ==
    IF body = "nan" THEN [out |-> "ok", kind |-> "nan", val |-> 0]
    ELSE IF body = "inf"
    THEN [out |-> "ok", kind |-> IF neg THEN "-inf" ELSE "inf", val |-> 0]
    ELSE FloatOfDot(neg, body, Find(body, "."))

FloatOfStripped(t) ==
    IF Len(t) > 0 /\ At(t, 1) \in {"+", "-"}
    THEN FloatOfBody(At(t, 1) = "-", SubSeq(t, 2, Len(t)))
    ELSE FloatOfBody(FALSE, t)

ParseFloat(s) == FloatOfStripped(Strip(s))

\* x < y and x > y on parsed floats (a comparison with nan is false).
FloatLess(x, y) ==
    CASE x.kind = "nan" -> FALSE
      [] x.kind = "-inf" -> TRUE
      [] x.kind = "inf" -> FALSE
      [] OTHER -> x.val < y

FloatGreater(x, y) ==
    CASE x.kind = "nan" -> FALSE
      [] x.kind = "-inf" -> FALSE
      [] x.kind = "inf" -> TRUE
      [] OTHER -> x.val > y

(***************************************************************************)
(* Configuration                                                           *)
(***************************************************************************)

\* No file at the path.
NoFile == [exists |-> FALSE, text |-> ""]

File(t) == [exists |-> TRUE, text |-> t]

DEFAULT_CONFIG ==
    [k \in {"QUIET_ENABLED", "QUIET_START", "QUIET_END", "OUTPUT_MODE",
            "RANDOM_AUDIO_PERCENT", "AUDIO_DEVICE", "AUDIO_GAIN", "LIMITER_ENABLED",
            "LIM_ATTACK", "LIM_DECAY", "LIM_SOFTKNEE", "LIM_TARGET_DB",
            "WOPR_ENABLED_VARIATIONS", "MAINFRAME_ENABLED_VARIATIONS",
            "ALIENSTERM_ENABLED_VARIATIONS", "MODEM_ENABLED_VARIATIONS",
            "WOPR_INTERVAL_MIN", "WOPR_INTERVAL_MAX",
            "MAINFRAME_INTERVAL_MIN", "MAINFRAME_INTERVAL_MAX",
            "ALIENSTERM_INTERVAL_MIN", "ALIENSTERM_INTERVAL_MAX",
            "MODEM_INTERVAL_MIN", "MODEM_INTERVAL_MAX",
            "WOPR_BEEPS_MIN", "WOPR_BEEPS_MAX", "MAINFRAME_BEEPS_MIN",
            "MAINFRAME_BEEPS_MAX", "ALIENSTERM_BEEPS_MIN", "ALIENSTERM_BEEPS_MAX",
            "MODEM_BEEPS_MIN", "MODEM_BEEPS_MAX",
            "SOUNDS_ENABLED", "SOUNDS_DIR", "SOUNDS_DURATION_MIN",
            "SOUNDS_DURATION_MAX", "SOUNDS_INTERVAL_MIN", "SOUNDS_INTERVAL_MAX"} |->
        CASE k = "QUIET_ENABLED" -> "1"
          [] k = "QUIET_START" -> "22:00"
          [] k = "QUIET_END" -> "07:00"
          [] k = "OUTPUT_MODE" -> "random"
          [] k = "RANDOM_AUDIO_PERCENT" -> "70"
          [] k = "AUDIO_DEVICE" -> "default"
          [] k = "AUDIO_GAIN" -> "1.0"
          [] k = "LIMITER_ENABLED" -> "0"
          [] k = "LIM_ATTACK" -> "0.005"
          [] k = "LIM_DECAY" -> "0.10"
          [] k = "LIM_SOFTKNEE" -> "6"
          [] k = "LIM_TARGET_DB" -> "-3"
          [] k \in {"WOPR_ENABLED_VARIATIONS", "MAINFRAME_ENABLED_VARIATIONS",
                    "ALIENSTERM_ENABLED_VARIATIONS", "MODEM_ENABLED_VARIATIONS"} -> "all"
          [] k = "WOPR_INTERVAL_MIN" -> "0.003"
          [] k = "WOPR_INTERVAL_MAX" -> "0.025"
          [] k = "MAINFRAME_INTERVAL_MIN" -> "0.067"
          [] k = "MAINFRAME_INTERVAL_MAX" -> "0.183"
          [] k = "ALIENSTERM_INTERVAL_MIN" -> "0.003"
          [] k = "ALIENSTERM_INTERVAL_MAX" -> "0.015"
          [] k = "MODEM_INTERVAL_MIN" -> "0.017"
          [] k = "MODEM_INTERVAL_MAX" -> "0.067"
          [] k \in {"WOPR_BEEPS_MIN", "MAINFRAME_BEEPS_MIN", "ALIENSTERM_BEEPS_MIN",
                    "MODEM_BEEPS_MIN"} -> "1"
          [] k \in {"WOPR_BEEPS_MAX", "MODEM_BEEPS_MAX"} -> "6"
          [] k = "MAINFRAME_BEEPS_MAX" -> "2"
          [] k = "ALIENSTERM_BEEPS_MAX" -> "4"
          [] k = "SOUNDS_ENABLED" -> "0"
          [] k = "SOUNDS_DIR" -> "/usr/local/share/retro-sfx/sounds"
          [] k = "SOUNDS_DURATION_MIN" -> "5.0"
          [] k = "SOUNDS_DURATION_MAX" -> "30.0"
          [] k = "SOUNDS_INTERVAL_MIN" -> "1.0"
          [] k = "SOUNDS_INTERVAL_MAX" -> "10.0"]

\* config[key] = value
Put(cfg, key, value) ==
    [k \in DOMAIN cfg \cup {key} |-> IF k = key THEN value ELSE cfg[k]]

\* config.get(key, default)
Get(cfg, key, default) == IF key \in DOMAIN cfg THEN cfg[key] ELSE default

\* One line of the config file applied to the dict (load_config's loop body).
ApplyStripped(cfg, line, eq) ==
    IF Len(line) > 0 /\ ~StartsWith(line, "#") /\ eq > 0
    THEN Put(cfg, Strip(SubSeq(line, 1, eq - 1)),
             StripQuotes(Strip(SubSeq(line, eq + 1, Len(line)))))
    ELSE cfg

ApplyLine(cfg, raw) == ApplyStripped(cfg, Strip(raw), Find(Strip(raw), "="))

RECURSIVE ApplyLines(_, _)
ApplyLines(cfg, lines) ==
    IF lines = <<>> THEN cfg ELSE ApplyLines(ApplyLine(cfg, Head(lines)), Tail(lines))

\* A clamp that leaves out the upper bound.
ClampIntervalBelow(v) ==
    LET Clamped(f) ==
            IF f.out # "ok" THEN v
            ELSE IF FloatLess(f, 1 * Scale) THEN "1.0"
            ELSE v
    IN  Clamped(ParseFloat(v))

\* The interval clamp of one value: below 1.0 becomes "1.0", above 100.0
\* becomes "100.0"; a value float() rejects is left as it is.
ClampInterval(v) ==
    LET Clamped(f) ==
            IF f.out # "ok" THEN v
            ELSE IF FloatLess(f, 1 * Scale) THEN "1.0"
            ELSE IF FloatGreater(f, 100 * Scale) THEN "100.0"
            ELSE v
    IN  Clamped(ParseFloat(v))

\* The beep-count clamp of one value: below 1 becomes "1", above 20 becomes
\* "20"; a value int() rejects is left as it is.
ClampBeeps(v) ==
    LET Clamped(n) ==
            IF n.out # "ok" THEN v
            ELSE IF n.val < 1 THEN "1"
            ELSE IF n.val > 20 THEN "20"
            ELSE v
    IN  Clamped(ParseInt(v))

IsIntervalKey(k) == EndsWith(k, "_INTERVAL_MIN") \/ EndsWith(k, "_INTERVAL_MAX")
IsBeepsKey(k) == EndsWith(k, "_BEEPS_MIN") \/ EndsWith(k, "_BEEPS_MAX")

\* The two clamp passes over every key of the dict.
ClampAll(read) ==
    [k \in DOMAIN read |->
        IF IsIntervalKey(k) THEN ClampInterval(read[k])
        ELSE IF IsBeepsKey(k) THEN ClampBeeps(read[k])
        ELSE read[k]]

\* load_config(): the defaults, overridden by the file's lines, then clamped.
load_config(file) ==
    IF file.exists THEN ClampAll(ApplyLines(DEFAULT_CONFIG, SplitLines(file.text)))
    ELSE ClampAll(DEFAULT_CONFIG)

\* The file's text as it is, whatever it names.
ReadProfileUnchecked(file) == IF file.exists THEN Strip(file.text) ELSE "mainframe"

\* read_profile()
read_profile(file) ==
    IF file.exists /\ Strip(file.text) \in {"wopr", "mainframe", "aliensterm", "modem"}
    THEN Strip(file.text) ELSE "mainframe"

\* is_enabled()
is_enabled(file) == IF file.exists THEN Strip(file.text) = "1" ELSE TRUE

(***************************************************************************)
(* Quiet hours                                                             *)
(***************************************************************************)

\* to_minutes(time_str): h, m = map(int, time_str.split(':')).  Any number
\* of parts other than two, or a part int() rejects, raises ValueError.
to_minutes(time_str) ==
    LET Minutes(h, m) ==
            IF h.out = "ok" /\ m.out = "ok"
            THEN [out |-> "ok", val |-> h.val * 60 + m.val]
            ELSE [out |-> "ValueError", val |-> 0]
        Unpack(parts) ==
            IF Len(parts) = 2 THEN Minutes(ParseInt(parts[1]), ParseInt(parts[2]))
            ELSE [out |-> "ValueError", val |-> 0]
    IN  Unpack(Split(time_str, ":"))

\* The window that forgets to wrap around midnight.
InWindowNoWrap(start_min, end_min, now_min) ==
    start_min <= now_min /\ now_min < end_min

\* The comparison in_quiet_hours ends with.
InWindow(start_min, end_min, now_min) ==
    IF start_min = end_min THEN TRUE
    ELSE IF start_min < end_min THEN start_min <= now_min /\ now_min < end_min
    ELSE now_min >= start_min \/ now_min < end_min

\* in_quiet_hours(config) at clock reading now_min (hour * 60 + minute).
in_quiet_hours(cfg, now_min) ==
    LET Within(start, end) ==
            IF start.out # "ok" \/ end.out # "ok"
            THEN [out |-> "ValueError", val |-> FALSE]
            ELSE [out |-> "ok", val |-> InWindow(start.val, end.val, now_min)]
    IN  IF Get(cfg, "QUIET_ENABLED", "") # "1" THEN [out |-> "ok", val |-> FALSE]
        ELSE Within(to_minutes(Get(cfg, "QUIET_START", "22:00")),
                    to_minutes(Get(cfg, "QUIET_END", "07:00")))

(***************************************************************************)
(* Hardware detection and output selection                                 *)
(*                                                                         *)
(* A host is what the probes see: lsmod's outcome ("loaded": it lists      *)
(* pcspkr, "notloaded", "fail": non-zero exit, "missing": no such tool),   *)
(* whether the beep tool is installed, whether /proc/asound/cards lists a  *)
(* card, the outcome of aplay -l ("card", "nocard", "fail", "missing") and *)
(* whether /sys/class/sound holds a card node.                             *)
(***************************************************************************)

LsmodOutcomes == {"loaded", "notloaded", "fail", "missing"}
AplayListOutcomes == {"card", "nocard", "fail", "missing"}

AllHosts ==
    [lsmod : LsmodOutcomes, beep : BOOLEAN, procCards : BOOLEAN,
     aplayList : AplayListOutcomes, sysCards : BOOLEAN]

\* has_pcspkr(): the module is listed and the beep tool exists; both ends
\* of the device-path check return True.
has_pcspkr(h) == h.lsmod = "loaded" /\ h.beep

\* has_audio()
has_audio(h) == h.procCards \/ h.aplayList = "card" \/ h.sysCards

\* A draw that leaves the upper end out.
randrange(a, b) == a..(b - 1)

\* random.randint(a, b): both ends included.
randint(a, b) == a..b

\* The draw pick_output_mode makes in random mode with both outputs there.
ModeDraws == randint(0, 99)

\* A chain that ends at the second output, available or not.
FallbackNoNone(first, first_available, second, second_available) ==
    IF first_available THEN first ELSE second

\* A chain that ends at the first output.
FallbackStuck(first, first_available, second, second_available) ==
    IF first_available THEN first ELSE "none"

\* The if / elif / else chains of pick_output_mode: the first output if it
\* is available, else the second if it is, else "none".
Fallback(first, first_available, second, second_available) ==
    IF first_available THEN first
    ELSE IF second_available THEN second
    ELSE "none"

\* A comparison that lets the draw equal to the percent give audio.
DrawnModeInclusive(draw, percent) == IF draw <= percent THEN "audio" ELSE "pcspkr"

\* "audio" if random.randint(0, 99) < percent else "pcspkr".
DrawnMode(draw, percent) == IF draw < percent THEN "audio" ELSE "pcspkr"

\* pick_output_mode(config) on host h, with draw the value random.randint
\* returns if it is called: [out, mode, drew].
pick_output_mode(cfg, h, draw) ==
    LET pcspkr_available == has_pcspkr(h)
        audio_available == has_audio(h)
        output_mode == Get(cfg, "OUTPUT_MODE", "random")
        Ret(m) == [out |-> "ok", mode |-> m, drew |-> FALSE]
        Drawn(percent) ==
            IF percent.out # "ok"
            THEN [out |-> "ValueError", mode |-> "none", drew |-> FALSE]
            ELSE [out |-> "ok", mode |-> DrawnMode(draw, percent.val), drew |-> TRUE]
    IN  IF output_mode = "pcspkr"
        THEN Ret(Fallback("pcspkr", pcspkr_available, "audio", audio_available))
        ELSE IF output_mode = "audio"
        THEN Ret(Fallback("audio", audio_available, "pcspkr", pcspkr_available))
        ELSE IF output_mode = "random"
        THEN IF pcspkr_available /\ audio_available
             THEN Drawn(ParseInt(Get(cfg, "RANDOM_AUDIO_PERCENT", "70")))
             ELSE Ret(Fallback("audio", audio_available, "pcspkr", pcspkr_available))
        ELSE Ret("none")

(***************************************************************************)
(* Tone backends                                                           *)
(***************************************************************************)

\* How one external process ends: exit status 0, a non-zero exit status
\* (CalledProcessError), the timeout (TimeoutExpired), no such program
\* (FileNotFoundError).
Outcomes == {"ok", "fail", "timeout", "missing"}

\* The devices play_audio tries, in order.
TONE_DEVICES == 3

\* play_audio(freq, dur_ms, config) on host h, outs[i] the way the aplay
\* run for the i-th device ends: [out, ret, attempts, dur_ms].
play_audio(freq, dur_ms, cfg, h, outs) ==
    LET dur == IF dur_ms < 30 THEN 30 ELSE dur_ms
        firstOk == IF \E i \in 1..TONE_DEVICES : outs[i] = "ok"
                   THEN CHOOSE i \in 1..TONE_DEVICES :
                            outs[i] = "ok" /\ \A j \in 1..(i - 1) : outs[j] # "ok"
                   ELSE 0
        Tried(audio_gain) ==
            IF audio_gain.out # "ok"
            THEN [out |-> "ValueError", ret |-> FALSE, attempts |-> 0, dur_ms |-> dur]
            ELSE IF firstOk > 0
            THEN [out |-> "ok", ret |-> TRUE, attempts |-> firstOk, dur_ms |-> dur]
            ELSE [out |-> "ok", ret |-> FALSE, attempts |-> TONE_DEVICES, dur_ms |-> dur]
    IN  IF ~has_audio(h)
        THEN [out |-> "ok", ret |-> FALSE, attempts |-> 0, dur_ms |-> dur]
        ELSE Tried(ParseFloat(Get(cfg, "AUDIO_GAIN", "1.0")))

\* play_pcspkr(freq, dur_ms), beep the way the beep run ends.  The except
\* branch calls play_audio(freq, dur_ms) with two arguments where three
\* are required: the call raises TypeError before play_audio runs.
play_pcspkr(freq, dur_ms, beep) ==
    IF beep = "ok"
    THEN [out |-> "ok", ret |-> TRUE, fallback |-> FALSE]
    ELSE [out |-> "TypeError", ret |-> FALSE, fallback |-> FALSE]

\* play_sound(freq, dur_ms, config) from its second line on: the tone goes
\* to the backend of the mode picked.  [out, mode, backend, ret, fallback,
\* dur_ms]: backend is the program run last ("none": no program was run),
\* dur_ms the duration that program is given.
play_sound_as(picked, freq, dur_ms, cfg, h, beep, outs) ==
    LET ViaPcspkr(spk) ==
            [out |-> spk.out, mode |-> "pcspkr", backend |-> "beep",
             ret |-> spk.ret, fallback |-> spk.fallback, dur_ms |-> dur_ms]
        ViaAudio(aud) ==
            [out |-> aud.out, mode |-> "audio",
             backend |-> IF aud.attempts > 0 THEN "aplay" ELSE "none",
             ret |-> aud.ret, fallback |-> FALSE, dur_ms |-> aud.dur_ms]
        Routed(p) ==
            IF p.out # "ok"
            THEN [out |-> p.out, mode |-> "none", backend |-> "none",
                  ret |-> FALSE, fallback |-> FALSE, dur_ms |-> dur_ms]
            ELSE IF p.mode = "pcspkr"
            THEN ViaPcspkr(play_pcspkr(freq, dur_ms, beep))
            ELSE IF p.mode = "audio"
            THEN ViaAudio(play_audio(freq, dur_ms, cfg, h, outs))
            ELSE [out |-> "ok", mode |-> "none", backend |-> "none",
                  ret |-> FALSE, fallback |-> FALSE, dur_ms |-> dur_ms]
    IN  Routed(picked)

\* play_sound(freq, dur_ms, config): the mode is resolved, then the tone
\* goes to that mode's backend.
play_sound(freq, dur_ms, cfg, h, draw, beep, outs) ==
    play_sound_as(pick_output_mode(cfg, h, draw), freq, dur_ms, cfg, h, beep, outs)

(***************************************************************************)
(* Patterns                                                                *)
(***************************************************************************)

Tone(f, d) == [kind |-> "tone", freq |-> f, dur |-> d, ms |-> 0]
Pause(t) == [kind |-> "pause", freq |-> 0, dur |-> 0, ms |-> t]

\* value.lower()
LowerChar(c) ==
    CASE c = "A" -> "a" [] c = "B" -> "b" [] c = "C" -> "c" [] c = "D" -> "d"
      [] c = "E" -> "e" [] c = "F" -> "f" [] c = "G" -> "g" [] c = "H" -> "h"
      [] c = "I" -> "i" [] c = "J" -> "j" [] c = "K" -> "k" [] c = "L" -> "l"
      [] c = "M" -> "m" [] c = "N" -> "n" [] c = "O" -> "o" [] c = "P" -> "p"
      [] c = "Q" -> "q" [] c = "R" -> "r" [] c = "S" -> "s" [] c = "T" -> "t"
      [] c = "U" -> "u" [] c = "V" -> "v" [] c = "W" -> "w" [] c = "X" -> "x"
      [] c = "Y" -> "y" [] c = "Z" -> "z" [] OTHER -> c

RECURSIVE Lower(_)
Lower(s) == IF Len(s) = 0 THEN "" ELSE LowerChar(At(s, 1)) \o Lower(SubSeq(s, 2, Len(s)))

\* profile.upper() of the four profile names.
Upper(profile) ==
    CASE profile = "wopr" -> "WOPR" [] profile = "mainframe" -> "MAINFRAME"
      [] profile = "aliensterm" -> "ALIENSTERM" [] profile = "modem" -> "MODEM"

\* list(range(10))
AllVariations == <<0, 1, 2, 3, 4, 5, 6, 7, 8, 9>>

\* The same parsing without the range filter.
GetVariationsUnfiltered(cfg, profile) ==
    LET NonBlank(x) == Strip(x) # ""
        Kept(variations) == IF variations = <<>> THEN AllVariations ELSE variations
        Parsed(parsed) ==
            IF \E i \in 1..Len(parsed) : parsed[i].out # "ok" THEN AllVariations
            ELSE Kept([i \in 1..Len(parsed) |-> parsed[i].val])
        Listed(tokens) == Parsed([i \in 1..Len(tokens) |-> ParseInt(Strip(tokens[i]))])
        Read(value) ==
            IF Lower(value) = "all" THEN AllVariations
            ELSE Listed(SelectSeq(Split(value, ","), NonBlank))
    IN  Read(Strip(Get(cfg, Upper(profile) \o "_ENABLED_VARIATIONS", "all")))

\* get_enabled_variations(config, profile): a list, in the order written.
get_enabled_variations(cfg, profile) ==
    LET NonBlank(x) == Strip(x) # ""
        InRange(v) == 0 <= v /\ v <= 9
        Kept(variations) == IF variations = <<>> THEN AllVariations ELSE variations
        Parsed(parsed) ==
            IF \E i \in 1..Len(parsed) : parsed[i].out # "ok" THEN AllVariations
            ELSE Kept(SelectSeq([i \in 1..Len(parsed) |-> parsed[i].val], InRange))
        Listed(tokens) == Parsed([i \in 1..Len(tokens) |-> ParseInt(Strip(tokens[i]))])
        Read(value) ==
            IF Lower(value) = "all" THEN AllVariations
            ELSE Listed(SelectSeq(Split(value, ","), NonBlank))
    IN  Read(Strip(Get(cfg, Upper(profile) \o "_ENABLED_VARIATIONS", "all")))

\* pattern_wopr's base_patterns, indexed from 0.
WOPR_PATTERNS ==
    [i \in 0..9 |->
        CASE i = 0 -> <<Tone(1200, 40), Tone(900, 35), Tone(1600, 50)>>
          [] i = 1 -> <<Tone(700, 70), Tone(1100, 40), Tone(700, 40)>>
          [] i = 2 -> <<Tone(300, 200)>>
          [] i = 3 -> <<Tone(1500, 30), Tone(1700, 30), Tone(1900, 40)>>
          [] i = 4 -> <<Tone(800, 60), Tone(600, 80)>>
          [] i = 5 -> <<Tone(1000, 35), Tone(1000, 35), Tone(600, 120)>>
          [] i = 6 -> <<Tone(400, 140), Tone(900, 50)>>
          [] i = 7 -> <<Tone(500, 25), Tone(1200, 45), Tone(800, 60)>>
          [] i = 8 -> <<Tone(600, 100)>>
          [] i = 9 -> <<Tone(1300, 20), Tone(900, 50), Tone(700, 80), Tone(1100, 40)>>]

\* pattern_mainframe's patterns, indexed from 0.
MAINFRAME_PATTERNS ==
    [i \in 0..9 |->
        CASE i \in {0, 1, 2} -> <<Tone(300, 80)>>
          [] i \in {3, 4} -> <<Tone(260, 120)>>
          [] i = 5 -> <<Tone(420, 60), Tone(320, 60)>>
          [] i = 6 -> <<Tone(220, 180)>>
          [] i \in {7, 8} -> <<Tone(500, 30), Tone(500, 30)>>
          [] i = 9 -> <<Tone(180, 260)>>]

\* pattern_aliensterm's patterns, indexed from 0.
ALIENSTERM_PATTERNS ==
    [i \in 0..9 |->
        CASE i \in {0, 1} -> <<Tone(1400, 35), Tone(1200, 35), Tone(1000, 45)>>
          [] i = 2 -> <<Tone(1800, 25), Tone(700, 90)>>
          [] i \in {3, 4} -> <<Tone(1600, 40), Tone(2000, 20), Tone(1600, 40)>>
          [] i = 5 -> <<Tone(900, 60), Tone(1300, 60), Tone(900, 60)>>
          [] i = 6 -> <<Tone(2100, 18), Tone(1900, 18), Tone(1700, 18), Tone(1500, 18)>>
          [] i = 7 -> <<Tone(600, 160), Tone(1400, 40)>>
          [] i = 8 -> <<Tone(1000, 30), Tone(1500, 30), Tone(2000, 30), Tone(1200, 60)>>
          [] i = 9 -> <<Tone(2400, 15), Tone(800, 120)>>]

\* pattern_modem's patterns, indexed from 0; two of them sleep in between.
MODEM_PATTERNS ==
    [i \in 0..9 |->
        CASE i = 0 -> <<Tone(350, 100), Tone(440, 100), Pause(100),
                        Tone(697, 50), Tone(770, 50), Tone(852, 50)>>
          [] i = 1 -> <<Tone(300, 80), Tone(600, 60), Tone(900, 50), Tone(1200, 40),
                        Tone(1500, 30)>>
          [] i = 2 -> <<Tone(400, 70), Tone(800, 60), Tone(1200, 50), Tone(1600, 40),
                        Tone(2000, 30)>>
          [] i = 3 -> <<Tone(1000, 20), Tone(1200, 20), Tone(1400, 20), Tone(1600, 20),
                        Tone(1800, 20)>>
          [] i = 4 -> <<Tone(350, 150), Tone(440, 150), Pause(200),
                        Tone(600, 100), Tone(900, 80), Tone(1200, 60)>>
          [] i = 5 -> <<Tone(500, 40), Tone(1000, 40), Tone(1500, 40)>>
          [] i = 6 -> <<Tone(697, 60), Tone(770, 60), Tone(852, 60), Tone(941, 60),
                        Tone(1209, 60)>>
          [] i = 7 -> <<Tone(1800, 200), Tone(2100, 150), Tone(2400, 100)>>
          [] i = 8 -> <<Tone(800, 30), Tone(1000, 30), Tone(1200, 30), Tone(1400, 30),
                        Tone(1600, 30), Tone(1800, 30)>>
          [] i = 9 -> <<Tone(400, 100), Tone(300, 100), Tone(200, 150)>>]

\* The table of an ambient profile.
AmbientTable(profile) ==
    CASE profile = "mainframe" -> MAINFRAME_PATTERNS
      [] profile = "aliensterm" -> ALIENSTERM_PATTERNS
      [] profile = "modem" -> MODEM_PATTERNS

\* The elements of a list: what random.choice may return.
Elems(seq) == {seq[i] : i \in 1..Len(seq)}

\* max(lo, min(hi, x))
Clamp(lo, hi, x) == IF x < lo THEN lo ELSE IF x > hi THEN hi ELSE x

Min(a, b) == IF a <= b THEN a ELSE b

\* The longest beep run of a WOPR pattern the model follows.
MaxBeeps == 2

\* random.randint(beeps_min, beeps_max), within the model's bound.
NumBeeps(lo, hi) == {n \in randint(lo, hi) : n <= MaxBeeps}

\* random.sample(population, k): every ordered choice of k positions.
Samples(population, k) ==
    {[i \in 1..k |-> population[f[i]]] :
        f \in {g \in [1..k -> 1..Len(population)] :
                  \A i, j \in 1..k : i # j => g[i] # g[j]}}

\* pattern_wopr's beeps_to_play for the chosen pattern and beep count.
BeepsToPlay(pattern, num_beeps) ==
    IF Len(pattern) = 1
    THEN {[i \in 1..num_beeps |-> pattern[1]]}
    ELSE LET extended == pattern \o pattern \o pattern
         IN  {SubSeq(b, 1, Min(num_beeps, Len(b))) :
                 b \in Samples(extended, Min(num_beeps, Len(extended)))}

\* A WOPR beep: the base tone, to be varied when it is played.
Beep(t) == [kind |-> "beep", freq |-> t.freq, dur |-> t.dur, ms |-> 0]

\* A choice among all the base patterns, enabled or not.
AnyPattern(enabled) == 0..9

\* pattern_wopr's available_patterns, as indices into base_patterns: the
\* enabled ones below len(base_patterns), all of them if that leaves none.
available_patterns(enabled) ==
    LET Kept(kept) == IF kept = {} THEN 0..9 ELSE kept
    IN  Kept({v \in Elems(enabled) : v < 10})

\* A plan: how the function got to its playing loop, the index of the
\* pattern it chose (-1 when none was chosen), what it has to play.
Plan(out, variation, todo) == [out |-> out, variation |-> variation, todo |-> todo]

\* pattern_wopr up to its playing loop: every plan the draws allow.
WoprPlans(cfg) ==
    LET Drawn(available, beeps_min, beeps_max) ==
            IF beeps_min.out # "ok" \/ beeps_max.out # "ok"
               \/ beeps_min.val > beeps_max.val
            THEN {Plan("ValueError", -1, <<>>)}
            ELSE UNION {{Plan("ok", v, [i \in 1..Len(b) |-> Beep(b[i])]) :
                            b \in UNION {BeepsToPlay(WOPR_PATTERNS[v], n) :
                                            n \in NumBeeps(beeps_min.val, beeps_max.val)}} :
                          v \in available}
    IN  Drawn(available_patterns(get_enabled_variations(cfg, "wopr")),
              ParseInt(Get(cfg, "WOPR_BEEPS_MIN", "1")),
              ParseInt(Get(cfg, "WOPR_BEEPS_MAX", "6")))

\* pattern_mainframe, pattern_aliensterm, pattern_modem up to the playing
\* of the chosen variation.
AmbientPlans(profile, cfg) ==
    {Plan("ok", r, AmbientTable(profile)[r]) :
        r \in {v \in Elems(get_enabled_variations(cfg, profile)) : 0 <= v /\ v < 10}}

PatternPlans(profile, cfg) ==
    IF profile = "wopr" THEN WoprPlans(cfg)
    ELSE IF profile \in {"mainframe", "aliensterm", "modem"} THEN AmbientPlans(profile, cfg)
    ELSE {Plan("return", -1, <<>>)}

\* The pattern function main's if/elif chain runs for a profile, "none"
\* when no branch names it.
Dispatched(profile) ==
    IF profile \in {"wopr", "mainframe", "aliensterm", "modem"} THEN profile ELSE "none"

\* What pattern_wopr draws for a beep: random.randint(-200, 200) for the
\* frequency, random.uniform(0.2, 5.0) for the duration (in tenths) and
\* random.uniform(0.05, 0.4) seconds for the pause after it (in
\* milliseconds).  The model follows the low ends and the high ends.
BeepDraws ==
    {[offset |-> -200, mult |-> 2, pause |-> 50],
     [offset |-> 200, mult |-> 50, pause |-> 400]}

\* freq_var and dur_var of a beep for the drawn jitter (the ends of both draws).
freq_var(freq, offset) == Clamp(100, 3000, freq + offset)

\* The duration without the clamp.
DurUnclamped(dur_ms, mult) == (dur_ms * mult) \div 10
dur_var(dur_ms, mult) == Clamp(10, 800, (dur_ms * mult) \div 10)

\* random.uniform(a, b) of two floats in thousandths: the ends.
uniform(a, b) == {a, b}

\* The pause after a pattern, in milliseconds: [out, ms] for every draw.
\* float() of either bound may raise; time.sleep(nan) raises ValueError.
IntervalSleeps(cfg, minKey, maxKey, minDefault, maxDefault) ==
    LET Slept(interval_min, interval_max) ==
            IF interval_min.out # "ok" \/ interval_max.out # "ok"
            THEN {[out |-> "ValueError", ms |-> 0]}
            ELSE IF interval_min.kind # "num" \/ interval_max.kind # "num"
            THEN {[out |-> "ValueError", ms |-> 0]}
            ELSE {[out |-> "ok", ms |-> m * 60 * (1000 \div Scale)] :
                     m \in uniform(interval_min.val, interval_max.val)}
    IN  Slept(ParseFloat(Get(cfg, minKey, minDefault)),
              ParseFloat(Get(cfg, maxKey, maxDefault)))

\* The keys and defaults of the pause after a profile's pattern and after a
\* sound file.
IntervalKeys(profile) ==
    CASE profile = "wopr" ->
           <<"WOPR_INTERVAL_MIN", "WOPR_INTERVAL_MAX", "0.003", "0.025">>
      [] profile = "mainframe" ->
           <<"MAINFRAME_INTERVAL_MIN", "MAINFRAME_INTERVAL_MAX", "0.067", "0.183">>
      [] profile = "aliensterm" ->
           <<"ALIENSTERM_INTERVAL_MIN", "ALIENSTERM_INTERVAL_MAX", "0.003", "0.015">>
      [] profile = "modem" ->
           <<"MODEM_INTERVAL_MIN", "MODEM_INTERVAL_MAX", "0.017", "0.067">>
      [] profile = "sounds" ->
           <<"SOUNDS_INTERVAL_MIN", "SOUNDS_INTERVAL_MAX", "1.0", "10.0">>

\* The pause after the pattern of a profile.
PatternSleeps(profile, cfg) ==
    LET Of(k) == IntervalSleeps(cfg, k[1], k[2], k[3], k[4])
    IN  Of(IntervalKeys(profile))

(***************************************************************************)
(* The control tool                                                        *)
(***************************************************************************)

RECURSIVE Join(_)
Join(lines) == IF lines = <<>> THEN "" ELSE Head(lines) \o Join(Tail(lines))

\* update_config(key, value): the file after the call.
update_config(file, key, value) ==
    LET entry == key \o "=" \o value \o "\n"
        Written(lines) ==
            IF \E i \in 1..Len(lines) : StartsWith(lines[i], key \o "=")
            THEN [i \in 1..Len(lines) |->
                     IF StartsWith(lines[i], key \o "=") THEN entry ELSE lines[i]]
            ELSE Append(lines, entry)
    IN  IF ~file.exists THEN File(entry)
        ELSE File(Join(Written(SplitLines(file.text))))

(***************************************************************************)
(* Sound files                                                             *)
(*                                                                         *)
(* A host also has the listing of the resolved sounds directory (empty     *)
(* when there is no such directory) and the set of installed programs      *)
(* among ffplay, mpg123, paplay, aplay and sox.                            *)
(***************************************************************************)

\* The extensions get_sound_files accepts.
SOUND_EXTENSIONS == {".mp3", ".wav", ".ogg", ".flac", ".m4a", ".aac"}

HasSuffix(name, exts) == \E e \in exts : EndsWith(Lower(name), e)

\* get_sound_files(sounds_dir) for the directory listing.
get_sound_files(listing) ==
    LET Playable(name) == HasSuffix(name, SOUND_EXTENSIONS)
    IN  SelectSeq(listing, Playable)

\* A sound file to play for a duration in milliseconds.
FilePlay(name, d) == [kind |-> "file", name |-> name, freq |-> 0, dur |-> d, ms |-> 0]

\* min(30.0, max(1.0, random.uniform(dur_min, dur_max))) in milliseconds,
\* for the ends of the draw; with a bound that is nan or infinite the draw
\* is nan or infinite and the clamp gives one of its two ends.
SoundDurations(dur_min, dur_max) ==
    IF dur_min.kind = "num" /\ dur_max.kind = "num"
    THEN {Clamp(1 * Scale, 30 * Scale, d) : d \in uniform(dur_min.val, dur_max.val)}
    ELSE {1 * Scale, 30 * Scale}

\* A pattern_soundfiles that finds no sounds directory.
SoundPlansNoDir(cfg, h) == {Plan("return", -1, <<>>)}

\* pattern_soundfiles up to the playing of the chosen file: "return" when
\* SOUNDS_ENABLED is not "1" and when the directory has no playable file.
SoundPlans(cfg, h) ==
    LET Chosen(files, dur_min, dur_max) ==
            IF Get(cfg, "SOUNDS_ENABLED", "") # "1" THEN {Plan("return", -1, <<>>)}
            ELSE IF files = <<>> THEN {Plan("return", -1, <<>>)}
            ELSE IF dur_min.out # "ok" \/ dur_max.out # "ok"
            THEN {Plan("ValueError", -1, <<>>)}
            ELSE {Plan("ok", -1, <<FilePlay(f, d)>>) :
                     f \in Elems(files), d \in SoundDurations(dur_min, dur_max)}
    IN  Chosen(get_sound_files(h.files),
               ParseFloat(Get(cfg, "SOUNDS_DURATION_MIN", "5.0")),
               ParseFloat(Get(cfg, "SOUNDS_DURATION_MAX", "30.0")))

\* play_sound_file_pcspkr: the beeps of extract_frequencies_from_audio go
\* to play_pcspkr one by one; beep is the way the first beep run that does
\* not succeed ends, "ok" when all succeed.
play_sound_file_pcspkr(h, beep) ==
    LET Beeped(spk) == [out |-> spk.out, backend |-> "beep", ret |-> spk.out = "ok"]
    IN  IF ~has_pcspkr(h) THEN [out |-> "ok", backend |-> "none", ret |-> FALSE]
        ELSE Beeped(play_pcspkr(0, 0, beep))

\* Whether one of the runs of a player over the three devices succeeds.
AnyOk(outs) == \E i \in 1..Len(outs) : outs[i] = "ok"

\* The players of play_sound_file after ffplay, in order: mpg123 for .mp3,
\* paplay, aplay for .wav.  runs gives the way each player's runs end.
TryPlayers(name, h, runs) ==
    LET mp3 == "mpg123" \in h.players /\ EndsWith(Lower(name), ".mp3")
        pa == "paplay" \in h.players
        wav == "aplay" \in h.players /\ EndsWith(Lower(name), ".wav")
        Ok(b) == [out |-> "ok", backend |-> b, ret |-> TRUE]
    IN  IF mp3 /\ AnyOk(runs.mpg123) THEN Ok("mpg123")
        ELSE IF pa /\ runs.paplay = "ok" THEN Ok("paplay")
        ELSE IF wav /\ AnyOk(runs.aplay) THEN Ok("aplay")
        ELSE [out |-> "ok", ret |-> FALSE,
              backend |-> IF wav THEN "aplay" ELSE IF pa THEN "paplay"
                          ELSE IF mp3 THEN "mpg123" ELSE "none"]

\* play_sound_file(file_path, duration_seconds, config): [out, backend, ret].
\* With ffplay installed the first device tried is "pipewire", for which the
\* environment handed to subprocess.run holds PULSE_SERVER = None: the call
\* raises TypeError, which the except clause does not name.
play_sound_file(name, cfg, h, draw, beep, runs) ==
    LET Audio(audio_gain) ==
            IF audio_gain.out # "ok"
            THEN [out |-> "ValueError", backend |-> "none", ret |-> FALSE]
            ELSE IF "ffplay" \in h.players
            THEN [out |-> "TypeError", backend |-> "none", ret |-> FALSE]
            ELSE TryPlayers(name, h, runs)
        Routed(picked) ==
            IF picked.out # "ok"
            THEN [out |-> picked.out, backend |-> "none", ret |-> FALSE]
            ELSE IF picked.mode = "pcspkr" THEN play_sound_file_pcspkr(h, beep)
            ELSE IF ~has_audio(h) THEN play_sound_file_pcspkr(h, beep)
            ELSE Audio(ParseFloat(Get(cfg, "AUDIO_GAIN", "1.0")))
    IN  Routed(pick_output_mode(cfg, h, draw))

(***************************************************************************)
(* The daemon and its environment                                          *)
(***************************************************************************)

VARIABLES
    pc,           \* where main() is: "start", "loop", "gate", "play", "sleep",
                  \* "done", "blocked" (in a call that does not return),
                  \* "exited", "crashed"; "idle" when a function is studied
    config,       \* the dict load_config returned in this tick
    profile,      \* the pattern function that is running, "sounds" for
                  \* pattern_soundfiles
    todo,         \* what the running pattern function has still to play
    tick,         \* what this tick has done so far
    last,         \* the last backend call of this tick
    sleep,        \* the time.sleep the daemon is in, or was last in
    exc,          \* the exception that ended main() ("SystemExit" for
                  \* sys.exit(0)), "none" if none
    now,          \* the clock: minutes since midnight
    enabledFile,  \* /run/retro-sfx/enabled
    profileFile,  \* /run/retro-sfx/profile
    confFile,     \* /etc/retro-sfx.conf
    host,         \* what the hardware probes and the tool lookups see
    events,       \* retro-sfxctl commands and hardware changes so far
    fin,          \* the arguments of the function under study
    fout          \* its result

daemonVars == <<pc, config, profile, todo, tick, last, sleep, exc>>
envVars == <<now, enabledFile, profileFile, confFile, host, events>>
funVars == <<fin, fout>>
vars == <<pc, config, profile, todo, tick, last, sleep, exc, now, enabledFile,
          profileFile, confFile, host, events, fin, fout>>

\* A tick that has done nothing yet.
NoTick ==
    [gate |-> "none", enabledAtGate |-> FALSE, quietAtGate |-> FALSE,
     profileRead |-> FALSE, ran |-> "none", variation |-> -1, tones |-> 0,
     invoked |-> FALSE, sleeps |-> 0]

NoCall ==
    [mode |-> "none", before |-> "none", backend |-> "none", freq |-> 0, dur |-> 0,
     sent |-> 0, ret |-> FALSE, quiet |-> FALSE]

NoSleep == [kind |-> "none", ms |-> 0]

NoFun == [op |-> "none"]

\* The hosts the daemon is run on: both outputs; the beeper only; audio
\* only, with ffplay; neither output.
Hosts ==
    {[lsmod |-> "loaded", beep |-> TRUE, procCards |-> TRUE, aplayList |-> "card",
      sysCards |-> TRUE, players |-> {"sox", "aplay", "mpg123", "paplay"},
      files |-> <<"README.txt", "boot.MP3", "dial.wav">>],
     [lsmod |-> "loaded", beep |-> TRUE, procCards |-> FALSE, aplayList |-> "missing",
      sysCards |-> FALSE, players |-> {}, files |-> <<"dial.wav">>],
     [lsmod |-> "notloaded", beep |-> FALSE, procCards |-> FALSE, aplayList |-> "card",
      sysCards |-> FALSE, players |-> {"ffplay", "paplay", "aplay"},
      files |-> <<"boot.mp3">>],
     [lsmod |-> "missing", beep |-> FALSE, procCards |-> FALSE, aplayList |-> "missing",
      sysCards |-> FALSE, players |-> {}, files |-> <<"notes.txt">>]}

\* A host whose lsmod never exits.
HangHosts ==
    {[lsmod |-> "hang", beep |-> TRUE, procCards |-> TRUE, aplayList |-> "card",
      sysCards |-> TRUE, players |-> {"sox", "aplay"}, files |-> <<"dial.wav">>]}

\* has_pcspkr() never returns: its subprocess.run(["lsmod"], ...) has no
\* timeout, so it waits for as long as lsmod runs.
ProbeBlocks(h) == h.lsmod = "hang"

\* The clock readings the daemon is observed at: 07:00 and 22:00.
ClockPoints == {420, 1320}

\* The reading after t: the clock only moves forward, around midnight.
NextClock(t) ==
    IF \E u \in ClockPoints : u > t
    THEN CHOOSE u \in ClockPoints : u > t /\ \A w \in ClockPoints : w > t => u <= w
    ELSE CHOOSE u \in ClockPoints : \A w \in ClockPoints : u <= w

\* An installation: the config file, the profile file, the enabled file.
Install(conf, prof, en) == [conf |-> conf, profile |-> prof, enabled |-> en]

\* The installations the daemon is started on.
Installs ==
    {\* nothing written yet: the defaults, quiet hours 22:00 to 07:00
     Install(NoFile, NoFile, NoFile),
     \* switched off
     Install(File("QUIET_ENABLED=0\n"), File("mainframe"), File("0")),
     \* the beeper asked for, quiet hours over the day
     Install(File("# retro-sfx\nOUTPUT_MODE=pcspkr\nQUIET_START=\"07:00\"\nQUIET_END=\"22:00\"\n"),
             File("aliensterm\n"), File("1\n")),
     \* audio asked for, no quiet hours, two modem variations enabled
     Install(File("QUIET_ENABLED=0\nOUTPUT_MODE = audio\nMODEM_ENABLED_VARIATIONS=4,7\n"),
             File("modem"), File("1")),
     \* an output mode and a profile the daemon does not know, one
     \* mainframe variation enabled
     Install(File("QUIET_ENABLED=0\nOUTPUT_MODE=hdmi\nMAINFRAME_ENABLED_VARIATIONS=3,99,-1\n"),
             File("hal9000"), File("1")),
     \* sound files on
     Install(File("QUIET_ENABLED=0\nSOUNDS_ENABLED=1\nSOUNDS_DURATION_MIN=0.5\n"),
             File("mainframe"), File("1")),
     \* WOPR with two of its patterns enabled
     Install(File("QUIET_ENABLED=0\nWOPR_ENABLED_VARIATIONS=2,5\n"), File("wopr"),
             File("1")),
     \* values that do not parse
     Install(File("QUIET_START=7am\n"), File("mainframe"), File("1")),
     Install(File("QUIET_ENABLED=0\nRANDOM_AUDIO_PERCENT=half\n"), File("mainframe"),
             File("1")),
     Install(File("QUIET_ENABLED=0\nAUDIO_GAIN=loud\nOUTPUT_MODE=audio\n"),
             File("mainframe"), File("1")),
     Install(File("QUIET_ENABLED=0\nMAINFRAME_INTERVAL_MAX=slow\n"), File("mainframe"),
             File("1")),
     Install(File("QUIET_ENABLED=0\nWOPR_BEEPS_MAX=many\n"), File("wopr"), File("1")),
     Install(File("QUIET_ENABLED=0\nSOUNDS_ENABLED=1\nSOUNDS_DURATION_MAX=long\n"),
             File("mainframe"), File("1"))}

\* The retro-sfxctl commands and hardware changes the model follows.
MaxEvents == 1

Init ==
    /\ pc = "start"
    /\ config = DEFAULT_CONFIG
    /\ profile = "none"
    /\ todo = <<>>
    /\ tick = NoTick
    /\ last = NoCall
    /\ sleep = NoSleep
    /\ exc = "none"
    /\ now \in ClockPoints
    /\ \E i \in Installs :
          /\ enabledFile = i.enabled
          /\ profileFile = i.profile
          /\ confFile = i.conf
    /\ host \in Hosts \cup HangHosts
    /\ events = 0
    /\ fin = NoFun
    /\ fout = NoFun

\* main() up to its loop: the signal handlers, the default files, the
\* hardware report, which waits for lsmod.
Startup ==
    /\ pc = "start"
    /\ pc' = IF ProbeBlocks(host) THEN "blocked" ELSE "loop"
    /\ profileFile' = IF profileFile.exists THEN profileFile ELSE File("mainframe")
    /\ enabledFile' = IF enabledFile.exists THEN enabledFile ELSE File("1")
    /\ UNCHANGED <<config, profile, todo, tick, last, sleep, exc, now, confFile, host,
                   events, fin, fout>>

\* A config that is loaded in the first tick and held from then on.
HeldConfig(held, file) == IF held = DEFAULT_CONFIG THEN load_config(file) ELSE held

\* The config a tick works with: "config = load_config()" is the first
\* statement of the loop body, so the file is read in every tick and the
\* config of the tick before (held) is dropped.
FreshConfig(held, file) == load_config(file)

\* The top of the loop: config = load_config().
LoadConfig ==
    /\ pc = "loop"
    /\ config' = FreshConfig(config, confFile)
    /\ pc' = "gate"
    /\ UNCHANGED <<profile, todo, tick, last, sleep, exc, envVars, funVars>>

\* A test that leaves the quiet hours out.
GateEnabledOnly(enabled, quiet) == IF ~enabled THEN "closed" ELSE "open"

\* A test that leaves the enabled flag out.
GateQuietOnly(enabled, quiet) ==
    IF quiet.out # "ok" THEN quiet.out
    ELSE IF quiet.val THEN "closed" ELSE "open"

\* The loop's test "not is_enabled() or in_quiet_hours(config)": "closed",
\* "open", or the exception in_quiet_hours raises.  in_quiet_hours is not
\* called when the daemon is disabled.
Gate(enabled, quiet) ==
    IF ~enabled THEN "closed"
    ELSE IF quiet.out # "ok" THEN quiet.out
    ELSE IF quiet.val THEN "closed" ELSE "open"

\* Whether in_quiet_hours(cfg) returns True at clock reading t.
IsQuiet(cfg, t) ==
    LET Quiet(q) == q.out = "ok" /\ q.val
    IN  Quiet(in_quiet_hours(cfg, t))

\* What a tick notes at its gate.
AtGate(gate) ==
    [NoTick EXCEPT !.gate = gate,
                   !.enabledAtGate = is_enabled(enabledFile),
                   !.quietAtGate = IsQuiet(config, now)]

\* The gate test of the tick that is at its gate.
GateNow == Gate(is_enabled(enabledFile), in_quiet_hours(config, now))

\* The gate sleep, in milliseconds.
GATE_SLEEP_MS == 2000

\* A tick that finds the daemon disabled or in quiet hours: time.sleep(2).
TickGated ==
    /\ pc = "gate"
    /\ GateNow = "closed"
    /\ tick' = [AtGate("closed") EXCEPT !.sleeps = 1]
    /\ sleep' = [kind |-> "gate", ms |-> GATE_SLEEP_MS]
    /\ pc' = "sleep"
    /\ UNCHANGED <<config, profile, todo, last, exc, envVars, funVars>>

\* A tick whose gate test raises: nothing in main() catches it.
TickGateRaises ==
    /\ pc = "gate"
    /\ GateNow \notin {"closed", "open"}
    /\ tick' = AtGate("raised")
    /\ exc' = GateNow
    /\ pc' = "crashed"
    /\ UNCHANGED <<config, profile, todo, last, sleep, envVars, funVars>>

\* A test that takes the sound files as switched on whatever the config says.
SoundsAlways(cfg) == TRUE

\* main's test config.get("SOUNDS_ENABLED") == "1".
sounds_enabled(cfg) == Get(cfg, "SOUNDS_ENABLED", "") = "1"

\* The draw "random.randint(0, 9) == 0" that sends a tick to the sound files.
SoundsDraws == randint(0, 9)

\* What a tick does with the plan of the function it runs: the tones are
\* left to play, or the function raises, or it returns at once.
Planned(plan) ==
    /\ todo' = plan.todo
    /\ exc' = IF plan.out \in {"ok", "return"} THEN "none" ELSE plan.out
    /\ pc' = CASE plan.out = "ok" -> "play"
               [] plan.out = "return" -> "done"
               [] OTHER -> "crashed"

\* A tick that passes the gate and draws 0 with SOUNDS_ENABLED "1":
\* pattern_soundfiles up to the playing of the file; the profile is not read.
TickSounds ==
    /\ pc = "gate"
    /\ GateNow = "open"
    /\ sounds_enabled(config)
    /\ \E d \in SoundsDraws : d = 0
    /\ profile' = "sounds"
    /\ \E plan \in SoundPlans(config, host) : Planned(plan)
    /\ tick' = [AtGate("open") EXCEPT !.ran = "sounds"]
    /\ UNCHANGED <<config, last, sleep, envVars, funVars>>

\* A tick that passes the gate and runs the profile's pattern function up
\* to its first tone: SOUNDS_ENABLED is not "1", or the draw is not 0.
TickProfile ==
    /\ pc = "gate"
    /\ GateNow = "open"
    /\ \/ ~sounds_enabled(config)
       \/ \E d \in SoundsDraws : d # 0
    /\ profile' = read_profile(profileFile)
    /\ \E plan \in PatternPlans(profile', config) :
          /\ Planned(plan)
          /\ tick' = [AtGate("open") EXCEPT !.profileRead = TRUE,
                                            !.ran = Dispatched(profile'),
                                            !.variation = plan.variation]
    /\ UNCHANGED <<config, last, sleep, envVars, funVars>>

\* The draws of pick_output_mode the model follows in the daemon.
DaemonDraws == {0, 99}

\* The draws that matter to a call: one when no draw is made.
DrawsFor(cfg, h) == IF pick_output_mode(cfg, h, 0).drew THEN DaemonDraws ELSE {0}

\* The beep outcomes that matter to a call: one when beep is not run.
BeepsFor(h, picked) ==
    IF has_pcspkr(h) /\ (picked.mode = "pcspkr" \/ ~has_audio(h)) THEN Outcomes
    ELSE {"ok"}

\* The ways the aplay runs of one play_audio call end that the model follows
\* in the daemon: the first, the second, the third device plays, none does.
DeviceRuns ==
    {<<"ok", "ok", "ok">>, <<"fail", "ok", "ok">>, <<"timeout", "missing", "ok">>,
     <<"fail", "timeout", "missing">>}

\* The aplay outcomes that matter to a call: one when aplay is not run.
OutsFor(h, picked) ==
    IF has_audio(h) /\ picked.mode = "audio" THEN DeviceRuns ELSE {<<"ok", "ok", "ok">>}

\* The ways the file players' runs end that the model follows: each plays
\* at once, one plays on a later device, none plays.  (What an ffplay run
\* would do is listed too; play_sound_file never gets as far as running it.)
PlayerRuns ==
    {[ffplay |-> <<"ok", "ok", "ok">>, mpg123 |-> <<"ok", "ok", "ok">>,
      paplay |-> "ok", aplay |-> <<"ok", "ok", "ok">>],
     [ffplay |-> <<"fail", "fail", "fail">>, mpg123 |-> <<"fail", "timeout", "missing">>,
      paplay |-> "fail", aplay |-> <<"timeout", "fail", "ok">>],
     [ffplay |-> <<"timeout", "fail", "missing">>, mpg123 |-> <<"fail", "fail", "fail">>,
      paplay |-> "timeout", aplay |-> <<"missing", "missing", "missing">>]}

\* The record of a backend call: before is the mode of the tick's call
\* before it, dur the duration the pattern asked for, sent the duration the
\* backend program is given.
Called(mode, r, freq, dur_ms) ==
    [mode |-> mode, before |-> last.mode, backend |-> r.backend, freq |-> freq,
     dur |-> dur_ms,
     sent |-> IF "dur_ms" \in DOMAIN r THEN r.dur_ms ELSE dur_ms,
     ret |-> r.ret, quiet |-> IsQuiet(config, now)]

\* What the running pattern function does with a call's result r: it goes
\* on to the pause that follows, or the exception leaves main().
Returned(r, pause) ==
    /\ tick' = [tick EXCEPT !.tones = @ + 1, !.invoked = @ \/ r.backend # "none"]
    /\ IF r.out = "ok"
       THEN /\ todo' = Tail(todo)
            /\ sleep' = pause
            /\ UNCHANGED <<pc, exc>>
       ELSE /\ pc' = "crashed"
            /\ exc' = r.out
            /\ UNCHANGED <<todo, sleep>>

\* A resolution that is made once in a pattern and kept for its later
\* calls.
ResolvedOnce(fresh, kept) ==
    IF kept \in {"pcspkr", "audio"} THEN [fresh EXCEPT !.mode = kept] ELSE fresh

\* The mode a play_sound call goes by: the result of the pick_output_mode
\* call it makes itself (fresh); the mode of the call before (kept) is
\* held nowhere.
resolved(fresh, kept) == fresh

\* One play_sound(freq, dur_ms, config) call of the running pattern.
PlaySound(freq, dur_ms, pause) ==
    IF ProbeBlocks(host)
    THEN pc' = "blocked" /\ UNCHANGED <<todo, tick, last, sleep, exc>>
    ELSE \E draw \in DrawsFor(config, host) :
            LET Done(r) == last' = Called(r.mode, r, freq, dur_ms) /\ Returned(r, pause)
                Run(picked) ==
                    \E beep \in BeepsFor(host, picked), outs \in OutsFor(host, picked) :
                        Done(play_sound_as(picked, freq, dur_ms, config, host, beep, outs))
            IN  Run(resolved(pick_output_mode(config, host, draw), last.mode))

\* The next tone of an ambient pattern.
PlayTone ==
    /\ pc = "play"
    /\ todo # <<>>
    /\ Head(todo).kind = "tone"
    /\ PlaySound(Head(todo).freq, Head(todo).dur, sleep)
    /\ UNCHANGED <<config, profile, envVars, funVars>>

\* The next beep of the WOPR pattern: the jitter, the tone, the pause.
PlayBeep ==
    /\ pc = "play"
    /\ todo # <<>>
    /\ Head(todo).kind = "beep"
    /\ \E d \in BeepDraws :
          PlaySound(freq_var(Head(todo).freq, d.offset), dur_var(Head(todo).dur, d.mult),
                    [kind |-> "beep", ms |-> d.pause])
    /\ UNCHANGED <<config, profile, envVars, funVars>>

\* A time.sleep inside a modem pattern.
PlayPause ==
    /\ pc = "play"
    /\ todo # <<>>
    /\ Head(todo).kind = "pause"
    /\ todo' = Tail(todo)
    /\ sleep' = [kind |-> "pause", ms |-> Head(todo).ms]
    /\ UNCHANGED <<pc, config, profile, tick, last, exc, envVars, funVars>>

\* play_sound_file for the file pattern_soundfiles chose.
PlayFile ==
    /\ pc = "play"
    /\ todo # <<>>
    /\ Head(todo).kind = "file"
    /\ IF ProbeBlocks(host)
       THEN pc' = "blocked" /\ UNCHANGED <<todo, tick, last, sleep, exc>>
       ELSE \E draw \in DrawsFor(config, host) :
               LET Done(r) ==
                       last' = Called("file", r, 0, Head(todo).dur) /\ Returned(r, sleep)
                   Run(picked) ==
                       \E beep \in BeepsFor(host, picked), runs \in PlayerRuns :
                           Done(play_sound_file(Head(todo).name, config, host, draw,
                                                beep, runs))
               IN  Run(pick_output_mode(config, host, draw))
    /\ UNCHANGED <<config, profile, envVars, funVars>>

\* The end of a pattern function: the interval is read from the config
\* and slept.
PatternSleep ==
    /\ pc = "play"
    /\ todo = <<>>
    /\ \E s \in PatternSleeps(profile, config) :
          IF s.out = "ok"
          THEN /\ sleep' = [kind |-> "interval", ms |-> s.ms]
               /\ tick' = [tick EXCEPT !.sleeps = @ + 1]
               /\ pc' = "sleep"
               /\ UNCHANGED exc
          ELSE /\ pc' = "crashed"
               /\ exc' = s.out
               /\ UNCHANGED <<sleep, tick>>
    /\ UNCHANGED <<config, profile, todo, last, envVars, funVars>>

\* The tick ends (its sleep is over, or pattern_soundfiles returned without
\* one) and the loop starts its next tick.
Wake ==
    /\ pc \in {"sleep", "done"}
    /\ pc' = "loop"
    /\ tick' = NoTick
    /\ last' = NoCall
    /\ profile' = "none"
    /\ sleep' = NoSleep
    /\ UNCHANGED <<config, todo, exc, envVars, funVars>>

\* A handler whose SystemExit is swallowed inside a pattern function.
SignalSwallowed(at) == IF at = "play" THEN "play" ELSE "exited"

\* signal_handler(sig, frame): sys.exit(0) raises SystemExit where main()
\* is; no except clause of the daemon names it (or is bare), so it leaves
\* main() and the process exits with status 0.
signal_handler(at) == "exited"

\* SIGTERM or SIGINT once the handlers are installed.
Signal ==
    /\ pc \in {"loop", "gate", "play", "sleep", "done", "blocked"}
    /\ pc' = signal_handler(pc)
    /\ exc' = "SystemExit"
    /\ IF pc' = "exited"
       THEN /\ profile' = "none"
            /\ todo' = <<>>
            /\ tick' = NoTick
            /\ last' = NoCall
            /\ sleep' = NoSleep
       ELSE UNCHANGED <<profile, todo, tick, last, sleep>>
    /\ UNCHANGED <<config, envVars, funVars>>

Running == pc \in {"start", "loop", "gate", "play", "sleep", "done"}

\* Time passes.
ClockAdvance ==
    /\ Running
    /\ now' = NextClock(now)
    /\ UNCHANGED <<daemonVars, enabledFile, profileFile, confFile, host, events, funVars>>

\* Hardware or tools come and go.
HardwareChange ==
    /\ Running
    /\ events < MaxEvents
    /\ events' = events + 1
    /\ host' \in (Hosts \cup HangHosts) \ {host}
    /\ UNCHANGED <<daemonVars, now, enabledFile, profileFile, confFile, funVars>>

\* retro-sfxctl on / off: set_enabled.
CtlSetEnabled ==
    /\ Running
    /\ events < MaxEvents
    /\ events' = events + 1
    /\ \E value \in {"1", "0"} : enabledFile' = File(value)
    /\ UNCHANGED <<daemonVars, now, profileFile, confFile, host, funVars>>

\* set_profile(profile): [status, file].
set_profile(file, name) ==
    IF name \notin {"wopr", "mainframe", "aliensterm"}
    THEN [status |-> 2, file |-> file]
    ELSE [status |-> 0, file |-> File(name)]

\* retro-sfxctl profile NAME.
CtlSetProfile ==
    /\ Running
    /\ events < MaxEvents
    /\ events' = events + 1
    /\ \E name \in {"mainframe", "aliensterm", "modem"} :
          profileFile' = set_profile(profileFile, name).file
    /\ UNCHANGED <<daemonVars, now, enabledFile, confFile, host, funVars>>

\* set_quiet_enabled(enabled)
set_quiet_enabled(file, enabled) ==
    update_config(file, "QUIET_ENABLED", IF enabled THEN "1" ELSE "0")

\* retro-sfxctl quiet on / off.
CtlSetQuiet ==
    /\ Running
    /\ events < MaxEvents
    /\ events' = events + 1
    /\ \E enabled \in BOOLEAN : confFile' = set_quiet_enabled(confFile, enabled)
    /\ UNCHANGED <<daemonVars, now, enabledFile, profileFile, host, funVars>>

Next ==
    \/ Startup
    \/ LoadConfig
    \/ TickGated
    \/ TickGateRaises
    \/ TickSounds
    \/ TickProfile
    \/ PlayTone
    \/ PlayBeep
    \/ PlayPause
    \/ PlayFile
    \/ PatternSleep
    \/ Wake
    \/ Signal
    \/ ClockAdvance
    \/ HardwareChange
    \/ CtlSetEnabled
    \/ CtlSetProfile
    \/ CtlSetQuiet

Spec == Init /\ [][Next]_vars

(***************************************************************************)
(* The output selection on its own: pick_output_mode and play_sound are    *)
(* called on every host, mode and draw, with the config load_config reads  *)
(* from a file that sets the mode, the percent and the gain.               *)
(***************************************************************************)

\* The daemon is not running: one function is called, once, and fin and
\* fout hold the call.
InitFun ==
    /\ pc = "idle"
    /\ config = DEFAULT_CONFIG
    /\ profile = "none"
    /\ todo = <<>>
    /\ tick = NoTick
    /\ last = NoCall
    /\ sleep = NoSleep
    /\ exc = "none"
    /\ now = 0
    /\ enabledFile = NoFile
    /\ profileFile = NoFile
    /\ confFile = NoFile
    /\ host \in {h \in Hosts : ~has_pcspkr(h) /\ ~has_audio(h)}
    /\ events = 0
    /\ fin = NoFun
    /\ fout = NoFun

\* Every outcome of the probes, on a host with no players and no files.
ProbeHosts ==
    {[lsmod |-> h.lsmod, beep |-> h.beep, procCards |-> h.procCards,
      aplayList |-> h.aplayList, sysCards |-> h.sysCards, players |-> {},
      files |-> <<>>] : h \in AllHosts}

\* The values of OUTPUT_MODE: the three the daemon knows, and others.
OutputModes == {"pcspkr", "audio", "random", "hdmi", "Random"}

\* The values of RANDOM_AUDIO_PERCENT: as written by str(p), and one that
\* is no number.
PercentInputs ==
    {[text |-> IntStr(p), p |-> p, int |-> TRUE] : p \in {0, 1, 50, 70, 99, 100}}
        \cup {[text |-> "half", p |-> 0, int |-> FALSE]}

\* The config file that sets the output mode, the percent and the gain.
OutputConf(mode, percent, gain) ==
    File("OUTPUT_MODE=" \o mode \o "\nRANDOM_AUDIO_PERCENT=" \o percent
         \o "\nAUDIO_GAIN=" \o gain \o "\n")

\* The draws a call can see: all of them when it draws, one when it does not.
DrawsOf(cfg, h) == IF pick_output_mode(cfg, h, 0).drew THEN ModeDraws ELSE {0}

\* pick_output_mode(config) for one host, mode, percent and draw.
PickOutputMode ==
    /\ pc = "idle"
    /\ fin = NoFun
    /\ \E m \in OutputModes, q \in PercentInputs :
          /\ config' = load_config(OutputConf(m, q.text, "1.0"))
          /\ \E h \in ProbeHosts :
                \E d \in DrawsOf(config', h) :
                   /\ fin' = [op |-> "pick_output_mode", mode |-> m, percent |-> q,
                              host |-> h, draw |-> d]
                   /\ fout' = pick_output_mode(config', h, d)
    /\ UNCHANGED <<pc, profile, todo, tick, last, sleep, exc, envVars>>

\* pick_output_mode(config) in random mode with both outputs there, for
\* every percent and every draw: the draws that give audio.
PickDraws ==
    /\ pc = "idle"
    /\ fin = NoFun
    /\ \E p \in 0..100 :
          /\ config' = load_config(OutputConf("random", IntStr(p), "1.0"))
          /\ \E h \in {g \in Hosts : has_pcspkr(g) /\ has_audio(g)} :
                /\ fin' = [op |-> "draws", p |-> p, host |-> h]
                /\ fout' = [draws |-> ModeDraws,
                            audio |-> {d \in ModeDraws :
                                          pick_output_mode(config', h, d).mode = "audio"}]
    /\ UNCHANGED <<pc, profile, todo, tick, last, sleep, exc, envVars>>

\* play_sound(freq, dur_ms, config) for one host, mode, percent, gain, draw
\* and outcome of the programs it runs.
PlaySoundCall ==
    /\ pc = "idle"
    /\ fin = NoFun
    /\ \E m \in OutputModes, q \in {"70", "half"}, g \in {"1.0", "loud"} :
          /\ config' = load_config(OutputConf(m, q, g))
          /\ \E h \in Hosts, d \in DaemonDraws, beep \in Outcomes, outs \in DeviceRuns :
                /\ fin' = [op |-> "play_sound", mode |-> m, percent |-> q, gain |-> g,
                           host |-> h, draw |-> d, beep |-> beep, outs |-> outs]
                /\ fout' = play_sound(440, 100, config', h, d, beep, outs)
    /\ UNCHANGED <<pc, profile, todo, tick, last, sleep, exc, envVars>>

NextOutput == PickOutputMode \/ PickDraws \/ PlaySoundCall

SpecOutput == InitFun /\ [][NextOutput]_vars

(***************************************************************************)
(* The quiet-hours test on its own: in_quiet_hours is called at every      *)
(* minute of the day for windows written as HH:MM.                          *)
(***************************************************************************)

\* "%02d" of a number below 100.
Pad2(n) == IF n < 10 THEN "0" \o NatStr(n) ELSE NatStr(n)

\* The time of day t minutes after midnight, written HH:MM.
TimeStr(t) == Pad2(t \div 60) \o ":" \o Pad2(t % 60)

\* The minutes of a day.
DayMinutes == 0..(24 * 60 - 1)

\* The ends of the windows: midnight, 00:01, 07:00, noon, 22:00, 23:59.
QuietTimes == {0, 1, 420, 720, 1320, 1439}

\* The values of QUIET_ENABLED.
QuietFlags == {"1", "0", "yes"}

\* in_quiet_hours(config) for one window and one clock reading.
QuietCheck ==
    /\ pc = "idle"
    /\ fin = NoFun
    /\ \E en \in QuietFlags, s \in QuietTimes, e \in QuietTimes :
          /\ config' = load_config(File("QUIET_ENABLED=" \o en \o "\nQUIET_START=\""
                                        \o TimeStr(s) \o "\"\nQUIET_END=\""
                                        \o TimeStr(e) \o "\"\n"))
          /\ \E t \in (IF en = "1" THEN DayMinutes ELSE QuietTimes) :
                /\ fin' = [op |-> "in_quiet_hours", enabled |-> en, start |-> s,
                           end |-> e, now |-> t]
                /\ fout' = in_quiet_hours(config', t)
    /\ UNCHANGED <<pc, profile, todo, tick, last, sleep, exc, envVars>>

NextQuiet == QuietCheck

SpecQuiet == InitFun /\ [][NextQuiet]_vars

(***************************************************************************)
(* The variation lists on their own: get_enabled_variations is called for  *)
(* every profile on the config load_config reads from a file that sets the *)
(* profile's *_ENABLED_VARIATIONS.                                         *)
(***************************************************************************)

Profiles == {"wopr", "mainframe", "aliensterm", "modem"}

\* An entry of a comma list: its text, whether int() takes it, its value.
Entry(text, kind, val) == [text |-> text, kind |-> kind, val |-> val]

\* The entries the lists are made of: in range, out of range, padded,
\* no number, blank.
VariationEntries ==
    {Entry("0", "int", 0), Entry("2", "int", 2), Entry("3", "int", 3),
     Entry("5", "int", 5), Entry("9", "int", 9), Entry("10", "int", 10),
     Entry("99", "int", 99), Entry("-1", "int", -1), Entry(" 7 ", "int", 7),
     Entry("x", "bad", 0), Entry("", "blank", 0)}

\* The longest list.
MaxEntries == 3

VariationLists == UNION {[1..n -> VariationEntries] : n \in 1..MaxEntries}

\* The spellings of "all".
VariationWords == {"all", "ALL", "All", " all "}

\* ",".join(texts)
RECURSIVE JoinComma(_)
JoinComma(entries) ==
    IF Len(entries) = 0 THEN ""
    ELSE IF Len(entries) = 1 THEN entries[1].text
    ELSE entries[1].text \o "," \o JoinComma(Tail(entries))

\* The config file that sets a profile's enabled variations.
VariationsConf(p, value) == File(Upper(p) \o "_ENABLED_VARIATIONS=" \o value \o "\n")

\* get_enabled_variations(config, profile) for one profile and one value.
GetVariations ==
    /\ pc = "idle"
    /\ fin = NoFun
    /\ \E p \in Profiles :
          \/ \E w \in VariationWords :
                /\ config' = load_config(VariationsConf(p, w))
                /\ fin' = [op |-> "get_enabled_variations", profile |-> p,
                           word |-> w, entries |-> <<>>]
                /\ fout' = get_enabled_variations(config', p)
          \/ \E l \in VariationLists :
                /\ config' = load_config(VariationsConf(p, JoinComma(l)))
                /\ fin' = [op |-> "get_enabled_variations", profile |-> p,
                           word |-> "none", entries |-> l]
                /\ fout' = get_enabled_variations(config', p)
    /\ UNCHANGED <<pc, profile, todo, tick, last, sleep, exc, envVars>>

NextVariations == GetVariations

SpecVariations == InitFun /\ [][NextVariations]_vars

(***************************************************************************)
(* The interval sleep on its own: the pause after a pattern or a sound     *)
(* file, for the config load_config reads from a file that sets the two    *)
(* bounds of the interval.                                                 *)
(***************************************************************************)

\* The values of an interval bound, in minutes: the text in the file,
\* whether it is a number, and the number in thousandths (the infinities
\* as a million minutes).
IntervalInputs ==
    {[text |-> "0.003", num |-> TRUE, val |-> 3],
     [text |-> "0.999", num |-> TRUE, val |-> 999],
     [text |-> "1", num |-> TRUE, val |-> 1000],
     [text |-> "1.0", num |-> TRUE, val |-> 1000],
     [text |-> "2.5", num |-> TRUE, val |-> 2500],
     [text |-> "30", num |-> TRUE, val |-> 30000],
     [text |-> "100.0", num |-> TRUE, val |-> 100000],
     [text |-> "100.001", num |-> TRUE, val |-> 100001],
     [text |-> "250", num |-> TRUE, val |-> 250000],
     [text |-> "0", num |-> TRUE, val |-> 0],
     [text |-> "-3", num |-> TRUE, val |-> -3000],
     [text |-> "inf", num |-> TRUE, val |-> 1000000 * 1000],
     [text |-> "-inf", num |-> TRUE, val |-> -1000000 * 1000],
     [text |-> "nan", num |-> FALSE, val |-> 0],
     [text |-> "slow", num |-> FALSE, val |-> 0]}

\* The end of pattern_wopr, pattern_mainframe, pattern_aliensterm,
\* pattern_modem and pattern_soundfiles: the pause that follows, for one
\* pair of bounds in the file.
IntervalSleep ==
    /\ pc = "idle"
    /\ fin = NoFun
    /\ \E p \in Profiles \cup {"sounds"}, lo \in IntervalInputs, hi \in IntervalInputs :
          /\ config' = load_config(File(IntervalKeys(p)[1] \o "=" \o lo.text \o "\n"
                                        \o IntervalKeys(p)[2] \o " = \"" \o hi.text
                                        \o "\"\n"))
          /\ \E s \in PatternSleeps(p, config') :
                /\ fin' = [op |-> "interval_sleep", profile |-> p, min |-> lo, max |-> hi]
                /\ fout' = [out |-> s.out, ms |-> s.ms,
                            min |-> config'[IntervalKeys(p)[1]],
                            max |-> config'[IntervalKeys(p)[2]]]
    /\ UNCHANGED <<pc, profile, todo, tick, last, sleep, exc, envVars>>

\* Config files that set no interval key of the profile that runs.
NoIntervalFiles ==
    {NoFile, File(""), File("# retro-sfx\nOUTPUT_MODE=audio\nQUIET_ENABLED=0\n"),
     File("SOUNDS_ENABLED=1\nHAL_INTERVAL_MIN=2\n")}

\* The same pause when the file sets neither bound.
DefaultSleep ==
    /\ pc = "idle"
    /\ fin = NoFun
    /\ \E p \in Profiles \cup {"sounds"}, file \in NoIntervalFiles :
          /\ config' = load_config(file)
          /\ \E s \in PatternSleeps(p, config') :
                /\ fin' = [op |-> "default_sleep", profile |-> p, file |-> file]
                /\ fout' = [out |-> s.out, ms |-> s.ms,
                            min |-> config'[IntervalKeys(p)[1]],
                            max |-> config'[IntervalKeys(p)[2]]]
    /\ UNCHANGED <<pc, profile, todo, tick, last, sleep, exc, envVars>>

NextInterval ==
    \/ IntervalSleep
    \/ DefaultSleep

SpecInterval == InitFun /\ [][NextInterval]_vars

(***************************************************************************)
(* The WOPR jitter on its own: the tone pattern_wopr hands to play_sound   *)
(* for every base beep and every draw of the two variations.               *)
(***************************************************************************)

\* The base beeps of the ten WOPR patterns.
WoprBeeps == UNION {Elems(WOPR_PATTERNS[i]) : i \in 0..9}

\* The draws of random.randint(-200, 200) and random.uniform(0.2, 5.0) (in
\* tenths): every offset with the two ends of the multiplier, and every
\* multiplier with the two ends of the offset.
JitterDraws ==
    ((-200..200) \X {2, 50}) \cup ({-200, 200} \X (2..50))

\* The body of pattern_wopr's playing loop up to the play_sound call.
Jitter ==
    /\ pc = "idle"
    /\ fin = NoFun
    /\ \E t \in WoprBeeps, d \in JitterDraws :
          /\ fin' = [op |-> "jitter", freq |-> t.freq, dur |-> t.dur,
                     offset |-> d[1], mult |-> d[2]]
          /\ fout' = [freq |-> freq_var(t.freq, d[1]), dur |-> dur_var(t.dur, d[2])]
    /\ UNCHANGED <<pc, config, profile, todo, tick, last, sleep, exc, envVars>>

SpecJitter == InitFun /\ [][Jitter]_vars

(***************************************************************************)
(* The file player on its own: play_sound_file is called for every set of  *)
(* installed players, on every hardware, for an .mp3, a .wav and an .ogg   *)
(* file.                                                                   *)
(***************************************************************************)

\* The programs play_sound_file looks up with shutil.which.
FilePlayers == {"ffplay", "mpg123", "paplay", "aplay", "sox"}

\* The hardware of the daemon's hosts with every set of installed players.
FileHosts ==
    {[h EXCEPT !.players = ps] : h \in Hosts, ps \in SUBSET FilePlayers}

\* The files played.
FileNames == {"boot.mp3", "dial.WAV", "tune.ogg"}

\* play_sound_file(file_path, duration_seconds, config) for one host, file,
\* output mode, draw and outcome of the programs it runs.
PlaySoundFileCall ==
    /\ pc = "idle"
    /\ fin = NoFun
    /\ \E m \in {"pcspkr", "audio", "random"} :
          /\ config' = load_config(OutputConf(m, "70", "1.0"))
          /\ \E h \in FileHosts, name \in FileNames, runs \in PlayerRuns :
                \E d \in DrawsFor(config', h) :
                   \E beep \in BeepsFor(h, pick_output_mode(config', h, d)) :
                      /\ fin' = [op |-> "play_sound_file", name |-> name, host |-> h,
                                 picked |-> pick_output_mode(config', h, d).mode,
                                 beep |-> beep, runs |-> runs]
                      /\ fout' = play_sound_file(name, config', h, d, beep, runs)
    /\ UNCHANGED <<pc, profile, todo, tick, last, sleep, exc, envVars>>

SpecFile == InitFun /\ [][PlaySoundFileCall]_vars

(***************************************************************************)
(* The control tool and the daemon together: retro-sfxctl writes a key     *)
(* into the config file and the daemon's next load_config reads it.        *)
(***************************************************************************)

\* The config file before the write: absent, empty, written by hand with
\* and without a last newline, with spaces around "=", with the quiet hours
\* and with the keys the tool sets, and with a key given twice.
PriorFiles ==
    {NoFile,
     File(""),
     File("# retro-sfx\nOUTPUT_MODE=audio\n"),
     File("# retro-sfx\nAUDIO_GAIN=0.8"),
     File("QUIET_ENABLED = 1\nLIMITER_ENABLED = 1\n"),
     File("QUIET_ENABLED=1\nQUIET_START=\"22:00\"\nQUIET_END=\"07:00\"\n"),
     File("RANDOM_AUDIO_PERCENT=70\nWOPR_INTERVAL_MAX=5\nWOPR_BEEPS_MAX=6\n"
          \o "WOPR_ENABLED_VARIATIONS=all\nLIMITER_ENABLED=0\nOUTPUT_MODE=random\n"),
     File("OUTPUT_MODE=random\n  OUTPUT_MODE = pcspkr\n")}

\* A write: the key, the value handed to update_config, and the value the
\* daemon is to read back (quotes stripped, clamped).
Write(key, value, read) == [key |-> key, value |-> value, read |-> read]

\* The writes of set_output, set_random_audio, set_limiter, set_quiet_time,
\* set_quiet_enabled and set_variations, and of update_config on an
\* interval and a beep count.
CtlWrites ==
    {Write("OUTPUT_MODE", "pcspkr", "pcspkr"), Write("OUTPUT_MODE", "audio", "audio"),
     Write("OUTPUT_MODE", "random", "random"),
     Write("RANDOM_AUDIO_PERCENT", IntStr(0), "0"),
     Write("RANDOM_AUDIO_PERCENT", IntStr(35), "35"),
     Write("RANDOM_AUDIO_PERCENT", IntStr(100), "100"),
     Write("LIMITER_ENABLED", "1", "1"), Write("LIMITER_ENABLED", "0", "0"),
     Write("QUIET_START", "\"23:30\"", "23:30"), Write("QUIET_END", "\"6:05\"", "6:05"),
     Write("QUIET_ENABLED", "1", "1"), Write("QUIET_ENABLED", "0", "0"),
     Write("WOPR_ENABLED_VARIATIONS", "2,5", "2,5"),
     Write("MAINFRAME_ENABLED_VARIATIONS", "all", "all"),
     Write("ALIENSTERM_ENABLED_VARIATIONS", "0, 9", "0, 9"),
     Write("WOPR_INTERVAL_MAX", "250", "100.0"), Write("WOPR_INTERVAL_MAX", "7.5", "7.5"),
     Write("MODEM_INTERVAL_MIN", "0.5", "1.0"),
     Write("WOPR_BEEPS_MAX", "25", "20"), Write("WOPR_BEEPS_MIN", "3", "3")}

\* retro-sfxctl writes a key, then the daemon's load_config runs.
UpdateConfig ==
    /\ pc = "idle"
    /\ fin = NoFun
    /\ \E prior \in PriorFiles, w \in CtlWrites :
          /\ confFile' = update_config(prior, w.key, w.value)
          /\ config' = load_config(confFile')
          /\ fin' = [op |-> "update_config", prior |-> prior, key |-> w.key,
                     value |-> w.value, read |-> w.read]
          /\ fout' = config'[w.key]
    /\ UNCHANGED <<pc, profile, todo, tick, last, sleep, exc, now, enabledFile,
                   profileFile, host, events>>

SpecCtl == InitFun /\ [][UpdateConfig]_vars

(***************************************************************************)
(* The setters of retro-sfxctl, each called once on the three files:       *)
(* [status, file] is the exit status and the file the setter writes.       *)
(***************************************************************************)

\* set_output(mode)
set_output(file, mode) ==
    IF mode \notin {"pcspkr", "audio", "random"}
    THEN [status |-> 2, file |-> file]
    ELSE [status |-> 0, file |-> update_config(file, "OUTPUT_MODE", mode)]

\* set_random_audio(percent)
set_random_audio(file, percent) ==
    IF ~(0 <= percent /\ percent <= 100)
    THEN [status |-> 2, file |-> file]
    ELSE [status |-> 0, file |-> update_config(file, "RANDOM_AUDIO_PERCENT", IntStr(percent))]

\* ([0-1]?[0-9]|2[0-3])
HourMatches(h) ==
    \/ Len(h) = 1 /\ At(h, 1) \in Digits
    \/ Len(h) = 2 /\ At(h, 1) \in {"0", "1"} /\ At(h, 2) \in Digits
    \/ Len(h) = 2 /\ At(h, 1) = "2" /\ At(h, 2) \in {"0", "1", "2", "3"}

\* The pattern up to the end of s: hour, ":", [0-5][0-9].
TimeMatches(s) ==
    \E n \in {1, 2} :
        /\ Len(s) = n + 3
        /\ HourMatches(SubSeq(s, 1, n))
        /\ At(s, n + 1) = ":"
        /\ At(s, n + 2) \in {"0", "1", "2", "3", "4", "5"}
        /\ At(s, n + 3) \in Digits

\* re.match(r'^([0-1]?[0-9]|2[0-3]):[0-5][0-9]$', s): "$" matches at the
\* end of s and also before a newline that ends s.
re_match(s) ==
    \/ TimeMatches(s)
    \/ Len(s) > 0 /\ At(s, Len(s)) = "\n" /\ TimeMatches(SubSeq(s, 1, Len(s) - 1))

\* set_quiet_time(start, end)
set_quiet_time(file, start, end) ==
    IF ~re_match(start) \/ ~re_match(end)
    THEN [status |-> 2, file |-> file]
    ELSE [status |-> 0,
          file |-> update_config(update_config(file, "QUIET_START", "\"" \o start \o "\""),
                                 "QUIET_END", "\"" \o end \o "\"")]

\* [int(x.strip()) for x in variations.split(",")], then all(0 <= n <= 9).
ValidNumbers(parts) ==
    /\ \A i \in 1..Len(parts) : ParseInt(Strip(parts[i])).out = "ok"
    /\ \A i \in 1..Len(parts) : ParseInt(Strip(parts[i])).val \in 0..9

\* set_variations(profile, variations)
set_variations(file, prof, variations) ==
    IF prof \notin {"wopr", "mainframe", "aliensterm"}
    THEN [status |-> 2, file |-> file]
    ELSE IF Lower(variations) # "all" /\ ~ValidNumbers(Split(variations, ","))
    THEN [status |-> 2, file |-> file]
    ELSE [status |-> 0,
          file |-> update_config(file, Upper(prof) \o "_ENABLED_VARIATIONS", variations)]

\* A command line: the setter, its arguments, and whether the arguments
\* are valid as the usage text states them.
Cmd(name, a, b, valid) == [name |-> name, a |-> a, b |-> b, valid |-> valid]

\* HH:MM, 24-hour
TimeArgs ==
    {[s |-> "22:00", valid |-> TRUE], [s |-> "7:05", valid |-> TRUE],
     [s |-> "23:59", valid |-> TRUE], [s |-> "24:00", valid |-> FALSE],
     [s |-> "7:5", valid |-> FALSE], [s |-> "19:60", valid |-> FALSE],
     [s |-> "2200", valid |-> FALSE], [s |-> "", valid |-> FALSE],
     [s |-> "10pm", valid |-> FALSE], [s |-> "06:30\n", valid |-> FALSE]}

\* "all" or a comma list of integers 0..9
VariationArgs ==
    {[s |-> "all", valid |-> TRUE], [s |-> "0,1,2,3", valid |-> TRUE],
     [s |-> "9", valid |-> TRUE], [s |-> "0, 9", valid |-> TRUE],
     [s |-> "10", valid |-> FALSE], [s |-> "-1", valid |-> FALSE],
     [s |-> "1,,2", valid |-> FALSE], [s |-> "", valid |-> FALSE],
     [s |-> "a,b", valid |-> FALSE], [s |-> "1;2", valid |-> FALSE],
     [s |-> "3,12", valid |-> FALSE], [s |-> "none", valid |-> FALSE]}

CtlCommands ==
    {Cmd("profile", n, "", n \in {"wopr", "mainframe", "aliensterm"}) :
        n \in {"wopr", "mainframe", "aliensterm", "modem", "hal9000", "WOPR", ""}}
    \cup {Cmd("output", m, "", m \in {"pcspkr", "audio", "random"}) :
        m \in {"pcspkr", "audio", "random", "both", "Audio", ""}}
    \cup {Cmd("random-audio", IntStr(n), "", n \in 0..100) : n \in {-1, 0, 50, 100, 101, 250}}
    \cup {Cmd("quiet-time", s.s, e.s, s.valid /\ e.valid) : s \in TimeArgs, e \in TimeArgs}
    \cup {Cmd("variations", p, v.s, v.valid /\ p \in {"wopr", "mainframe", "aliensterm"}) :
        p \in {"wopr", "aliensterm", "modem"}, v \in VariationArgs}

\* The profile, enabled and config files before the call.
CtlFiles ==
    {[profile |-> NoFile, enabled |-> NoFile, conf |-> NoFile],
     [profile |-> File("wopr"), enabled |-> File("1"),
      conf |-> File("OUTPUT_MODE=audio\nQUIET_START=\"21:00\"\nQUIET_END=\"06:00\"\n"
                    \o "WOPR_ENABLED_VARIATIONS=1,2\nRANDOM_AUDIO_PERCENT=20\n")]}

\* The setter's result on the file it writes (argparse hands the percent
\* over as int(argument)).
RunCmd(c, files) ==
    CASE c.name = "profile" -> set_profile(files.profile, c.a)
      [] c.name = "output" -> set_output(files.conf, c.a)
      [] c.name = "random-audio" -> set_random_audio(files.conf, ParseInt(c.a).val)
      [] c.name = "quiet-time" -> set_quiet_time(files.conf, c.a, c.b)
      [] c.name = "variations" -> set_variations(files.conf, c.a, c.b)

\* One retro-sfxctl command.
CtlCall ==
    /\ pc = "idle"
    /\ fin = NoFun
    /\ \E c \in CtlCommands, files \in CtlFiles :
          /\ profileFile' = IF c.name = "profile" THEN RunCmd(c, files).file ELSE files.profile
          /\ enabledFile' = files.enabled
          /\ confFile' = IF c.name = "profile" THEN files.conf ELSE RunCmd(c, files).file
          /\ fin' = [op |-> "retro-sfxctl", cmd |-> c, files |-> files]
          /\ fout' = RunCmd(c, files).status
    /\ UNCHANGED <<daemonVars, now, host, events>>

SpecSetters == InitFun /\ [][CtlCall]_vars

(***************************************************************************)
(* pattern_wopr on its own: the config is loaded from a file, the function *)
(* draws its pattern, its beep count and its sample and plays the beeps    *)
(* with play_sound on the host; fout holds what it drew and the base beeps *)
(* of the play_sound calls it made.                                        *)
(***************************************************************************)

\* Config files that set the enabled patterns and the beep count range:
\* inside [1,20], across its ends, beyond it, and with min above max.
WoprFiles ==
    {File("WOPR_ENABLED_VARIATIONS=2,4\nWOPR_BEEPS_MIN=5\nWOPR_BEEPS_MAX=7\n"),
     File("WOPR_ENABLED_VARIATIONS=0,8\nWOPR_BEEPS_MAX=2\n"),
     File("WOPR_ENABLED_VARIATIONS=8\nWOPR_BEEPS_MIN=0\nWOPR_BEEPS_MAX=25\n"),
     File("WOPR_ENABLED_VARIATIONS=6\nWOPR_BEEPS_MIN=30\nWOPR_BEEPS_MAX=40\n"),
     File("WOPR_ENABLED_VARIATIONS=2\nWOPR_BEEPS_MIN=-4\nWOPR_BEEPS_MAX=0\n"),
     File("WOPR_ENABLED_VARIATIONS=2\nWOPR_BEEPS_MIN=8\nWOPR_BEEPS_MAX=3\n")}

\* Whether a play_sound call of the playing loop can raise on host h.
CanRaise(cfg, h) ==
    \E draw \in DrawsFor(cfg, h), beep \in Outcomes, outs \in DeviceRuns :
        play_sound(440, 100, cfg, h, draw, beep, outs).out # "ok"

\* The exception a raising play_sound call leaves pattern_wopr with.
Raised(cfg, h) ==
    LET r == CHOOSE x \in {play_sound(440, 100, cfg, h, draw, beep, outs) :
                              draw \in DrawsFor(cfg, h), beep \in Outcomes,
                              outs \in DeviceRuns} : x.out # "ok"
    IN  r.out

\* The playing loop over beeps_to_play[:num_beeps]: every call returns
\* (k = 0) or the k-th call raises and ends the function.
WoprLoop(cfg, h, v, n, beeps) ==
    {[out |-> IF k = 0 THEN "ok" ELSE Raised(cfg, h), variation |-> v, n |-> n,
      calls |-> IF k = 0 THEN beeps ELSE SubSeq(beeps, 1, k),
      slept |-> k = 0] :
        k \in IF CanRaise(cfg, h) THEN 0..Len(beeps) ELSE {0}}

\* pattern_wopr(config) on host h: every run the draws allow.
pattern_wopr(cfg, h) ==
    LET Drawn(available, beeps_min, beeps_max) ==
            IF beeps_min.out # "ok" \/ beeps_max.out # "ok"
               \/ beeps_min.val > beeps_max.val
            THEN {[out |-> "ValueError", variation |-> v, n |-> 0, calls |-> <<>>,
                   slept |-> FALSE] : v \in available}
            ELSE UNION {WoprLoop(cfg, h, c[1], c[2], c[3]) :
                          c \in UNION {{<<v, n, b>> : b \in BeepsToPlay(WOPR_PATTERNS[v], n)} :
                                          v \in available,
                                          n \in randint(beeps_min.val, beeps_max.val)}}
    IN  Drawn(available_patterns(get_enabled_variations(cfg, "wopr")),
              ParseInt(Get(cfg, "WOPR_BEEPS_MIN", "1")),
              ParseInt(Get(cfg, "WOPR_BEEPS_MAX", "6")))

\* One call of pattern_wopr.
PatternWopr ==
    /\ pc = "idle"
    /\ fin = NoFun
    /\ \E file \in WoprFiles, h \in Hosts :
          /\ fin' = [op |-> "pattern_wopr", file |-> file, host |-> h]
          /\ fout' \in pattern_wopr(load_config(file), h)
    /\ UNCHANGED <<daemonVars, envVars>>

SpecWopr == InitFun /\ [][PatternWopr]_vars

(***************************************************************************)
(* extract_frequencies_from_audio on its own, called twice: on two file    *)
(* paths, given by the 16 bytes of their MD5 digests, for one duration in  *)
(* thousandths of a second, with the sox run ending in two ways.           *)
(***************************************************************************)

\* int(file_hash[i*2:(i*2)+2], 16) for i from 0, 50 past the digest's end.
hash_val(digest, i) == IF i * 2 + 2 <= 2 * Len(digest) THEN digest[i + 1] ELSE 50

\* A beep count without the 5..15 clamp.
NumBeepsUnclamped(duration) == (duration * 2) \div Scale

\* max(5, min(15, int(duration_seconds * 2)))
num_beeps(duration) == Clamp(5, 15, (duration * 2) \div Scale)

\* extract_frequencies_from_audio(file_path, duration_seconds): the list of
\* (freq, dur) beeps.  The sox run's output is not used, and the ways it
\* can end (sox) are caught or ignored.
extract_frequencies_from_audio(digest, duration, sox) ==
    LET segment_duration == duration \div num_beeps(duration)
    IN  [i \in 1..num_beeps(duration) |->
            [freq |-> 200 + ((hash_val(digest, i - 1) * 1800) \div 255),
             dur |-> Clamp(50, 200, segment_duration + (hash_val(digest, i - 1) % 150))]]

\* Digest bytes: the ends, and the values around the wrap of "% 150".
ByteSamples == {0, 149, 150, 255}

\* Digests: two byte values in turn.
Digests == {[i \in 1..16 |-> IF i % 2 = 1 THEN a ELSE b] : a, b \in ByteSamples}

\* Durations from 1 to 30 seconds, in thousandths, around the steps of the
\* beep count.
Durations == {1000, 2400, 2500, 2999, 3000, 5250, 7499, 7500, 12000, 30000}

\* Two calls for the same duration.
ExtractFrequencies ==
    /\ pc = "idle"
    /\ fin = NoFun
    /\ \E d1, d2 \in Digests, duration \in Durations, sox \in {"ok", "timeout"} :
          /\ fin' = [op |-> "extract_frequencies_from_audio", first |-> d1,
                     second |-> d2, duration |-> duration]
          /\ fout' = [first |-> extract_frequencies_from_audio(d1, duration, "ok"),
                      second |-> extract_frequencies_from_audio(d2, duration, sox)]
    /\ UNCHANGED <<daemonVars, envVars>>

SpecExtract == InitFun /\ [][ExtractFrequencies]_vars

(***************************************************************************)
(* The child processes of the audio backends: play_audio and the audio     *)
(* branch of play_sound_file run their programs one attempt after the      *)
(* other; procs holds the programs that are running.                       *)
(***************************************************************************)

\* The calls followed one after the other.
MaxCalls == 2

\* One attempt: the program that plays, whether sox is started first to
\* feed it (subprocess.Popen), whether the program is run under the
\* timeout utility ("timeout", N, prog, ...).
Attempt(prog, fed, wrapped) == [prog |-> prog, fed |-> fed, wrapped |-> wrapped]

\* n attempts alike, one for each device tried.
PerDevice(n, a) == [i \in 1..n |-> a]

\* play_audio: sox piped into aplay for each of devices_to_try.
ToneAttempts == PerDevice(TONE_DEVICES, Attempt("aplay", TRUE, FALSE))

\* The audio branch of play_sound_file for a file name and the installed
\* players: ffplay on each device; "timeout mpg123" on each device for an
\* .mp3; "timeout paplay" once; for a .wav, on each device, sox piped into
\* aplay if sox is installed and "timeout aplay" if not.
FileAttempts(name, players) ==
    (IF "ffplay" \in players
     THEN PerDevice(TONE_DEVICES, Attempt("ffplay", FALSE, FALSE)) ELSE <<>>)
    \o (IF "mpg123" \in players /\ EndsWith(Lower(name), ".mp3")
        THEN PerDevice(TONE_DEVICES, Attempt("mpg123", FALSE, TRUE)) ELSE <<>>)
    \o (IF "paplay" \in players THEN <<Attempt("paplay", FALSE, TRUE)>> ELSE <<>>)
    \o (IF "aplay" \in players /\ EndsWith(Lower(name), ".wav")
        THEN PerDevice(TONE_DEVICES,
                       Attempt("aplay", "sox" \in players, "sox" \notin players))
        ELSE <<>>)

\* A running program: the call and the attempt that started it, and whether
\* it has the audio device open (sox writes to a pipe).
Proc(call, step, prog, device) ==
    [call |-> call, step |-> step, prog |-> prog, device |-> device]

\* play_audio or play_sound_file is called and reaches its attempts; the
\* programs an earlier call left running are still there.
DeviceCall ==
    /\ pc = "idle"
    /\ IF fin = NoFun THEN TRUE
       ELSE fout.out \in {"True", "False"} /\ fin.call < MaxCalls
    /\ \E chain \in {ToneAttempts}
                    \cup {FileAttempts(name, ps) :
                             name \in FileNames, ps \in SUBSET FilePlayers} :
          /\ fin' = [op |-> "play", chain |-> chain,
                     call |-> IF fin = NoFun THEN 1 ELSE fin.call + 1]
          /\ fout' = [out |-> IF chain = <<>> THEN "False" ELSE "running", step |-> 1,
                      child |-> FALSE,
                      procs |-> IF fin = NoFun THEN {} ELSE fout.procs]
    /\ UNCHANGED <<daemonVars, envVars>>

\* The end of an attempt that has not played: the next one, or return False.
Continue(chain, step) ==
    [out |-> IF step = Len(chain) THEN "False" ELSE "running", step |-> step + 1]

\* An attempt starts its programs.  For ffplay the first device is
\* "pipewire" and env holds PULSE_SERVER None: TypeError before any program
\* runs.  Popen or run find no such program: FileNotFoundError, caught; the
\* sox that was started stays.
AttemptStart ==
    /\ pc = "idle"
    /\ fin # NoFun
    /\ fout.out = "running"
    /\ ~fout.child
    /\ LET a == fin.chain[fout.step]
           sox == Proc(fin.call, fout.step, "sox", FALSE)
           child == Proc(fin.call, fout.step, a.prog, TRUE)
           next == Continue(fin.chain, fout.step)
       IN  IF a.prog = "ffplay"
           THEN fout' = [fout EXCEPT !.out = "TypeError"]
           ELSE \/ fout' = [fout EXCEPT !.out = next.out, !.step = next.step]
                \/ a.fed /\ fout' = [fout EXCEPT !.out = next.out, !.step = next.step,
                                                 !.procs = @ \cup {sox}]
                \/ fout' = [fout EXCEPT !.child = TRUE,
                                        !.procs = @ \cup {child}
                                                    \cup (IF a.fed THEN {sox} ELSE {})]
    /\ UNCHANGED <<daemonVars, envVars, fin>>

\* What subprocess.run leaves of the programs when the run ends as outcome:
\* the program it started has exited, or was killed and waited for at the
\* timeout; of a program under the timeout utility it kills the utility,
\* and the program itself goes on.  After a zero exit status the sox that
\* fed it is waited for.
Reaped(procs, call, step, a, outcome) ==
    {p \in procs :
        \/ p.call # call
        \/ p.step # step
        \/ p.prog = "sox" /\ outcome # "ok"
        \/ p.prog # "sox" /\ a.wrapped /\ outcome = "timeout"}

\* The attempt's subprocess.run ends: return True after a zero exit
\* status, the next attempt after CalledProcessError or TimeoutExpired.
AttemptEnd ==
    /\ pc = "idle"
    /\ fin # NoFun
    /\ fout.out = "running"
    /\ fout.child
    /\ \E outcome \in Outcomes \ {"missing"} :
          LET next == Continue(fin.chain, fout.step)
          IN  fout' = [out |-> IF outcome = "ok" THEN "True" ELSE next.out,
                       step |-> IF outcome = "ok" THEN fout.step ELSE next.step,
                       child |-> FALSE,
                       procs |-> Reaped(fout.procs, fin.call, fout.step,
                                         fin.chain[fout.step], outcome)]
    /\ UNCHANGED <<daemonVars, envVars, fin>>

\* A program no subprocess.run waits for ends by itself.
ProcExits ==
    /\ pc = "idle"
    /\ fin # NoFun
    /\ \E p \in fout.procs :
          /\ ~(fout.child /\ p.call = fin.call /\ p.step = fout.step /\ p.prog # "sox")
          /\ fout' = [fout EXCEPT !.procs = @ \ {p}]
    /\ UNCHANGED <<daemonVars, envVars, fin>>

NextDevice == DeviceCall \/ AttemptStart \/ AttemptEnd \/ ProcExits

SpecDevice == InitFun /\ [][NextDevice]_vars

(***************************************************************************)
(* The preview script test-sound-beeps.py beside the daemon: both derive   *)
(* the beeps of a file and a duration, the script plays them through the   *)
(* audio output, the daemon through the beeper.                            *)
(***************************************************************************)

\* test-sound-beeps.py, extract_frequencies_from_audio(file_path,
\* duration_seconds): the list of (freq, dur) beeps.
preview_extract_frequencies_from_audio(digest, duration) ==
    LET n == Clamp(5, 15, (duration * 2) \div Scale)
        segment_duration == duration \div n
        byte(i) == IF i * 2 + 2 <= 2 * Len(digest) THEN digest[i + 1] ELSE 50
    IN  [i \in 1..n |->
            [freq |-> 200 + ((byte(i - 1) * 1800) \div 255),
             dur |-> Clamp(50, 200, segment_duration + (byte(i - 1) % 150))]]

\* The loop of play_sound_file_pcspkr from beep i on, total_duration
\* milliseconds played so far: it stops once total_duration has reached
\* duration_seconds * 1000, and ends with the exception of a play_pcspkr
\* call whose beep run (the failAt-th) does not succeed.  [out, n]: n beeps
\* were played.
RECURSIVE PcspkrLoop(_, _, _, _, _)
PcspkrLoop(beeps, i, total_duration, duration, failAt) ==
    LET After(spk) ==
            IF spk.out # "ok" THEN [out |-> spk.out, n |-> i - 1]
            ELSE PcspkrLoop(beeps, i + 1, total_duration + beeps[i].dur, duration,
                            failAt)
    IN  IF i > Len(beeps) \/ total_duration >= duration
        THEN [out |-> "ok", n |-> i - 1]
        ELSE After(play_pcspkr(beeps[i].freq, beeps[i].dur,
                               IF i = failAt THEN "fail" ELSE "ok"))

\* The loop of the script's main(): play_beep_audio for every beep; what
\* goes wrong in it is caught by its bare except clauses.  n beeps played.
PreviewLoop(beeps) == [out |-> "ok", n |-> Len(beeps)]

\* Durations in thousandths of a second: those between 1 and 30 seconds,
\* and one on either side.
PreviewDurations == Durations \cup {500, 45000}

\* The beep run that fails in the daemon: none, the first, the third.
FailingBeeps == {0, 1, 3}

\* The script and the daemon on the same file and duration.
Preview ==
    /\ pc = "idle"
    /\ fin = NoFun
    /\ \E d \in Digests, duration \in PreviewDurations, failAt \in FailingBeeps,
          sox \in {"ok", "timeout"} :
          /\ fin' = [op |-> "preview", digest |-> d, duration |-> duration,
                     failAt |-> failAt]
          /\ fout' = [preview |-> preview_extract_frequencies_from_audio(d, duration),
                      daemon |-> extract_frequencies_from_audio(d, duration, sox),
                      heard |-> PreviewLoop(
                                    preview_extract_frequencies_from_audio(d, duration)),
                      played |-> PcspkrLoop(
                                     extract_frequencies_from_audio(d, duration, sox),
                                     1, 0, duration, failAt)]
    /\ UNCHANGED <<daemonVars, envVars>>

SpecPreview == InitFun /\ [][Preview]_vars

(***************************************************************************)
(* Properties                                                              *)
(***************************************************************************)

\* C1: for every hardware, tool, backend outcome and config file, no
\* exception leaves main(): the loop ends only by SIGTERM or SIGINT.
C1_NeverEscapes == pc # "crashed"

\* C2, as stated: whenever a tone or file backend is run, the clock is not
\* inside the enabled quiet window, also in the middle of a pattern whose
\* tick began before the window.
C2_SilentInWindow == last.backend # "none" => ~last.quiet

\* C2, amended: a backend is run only in a tick whose gate test found the
\* daemon enabled and the clock outside the quiet window; the test is made
\* once, at the start of the tick.
C2_GatedAtTickStart ==
    (tick.invoked \/ last.backend # "none") =>
        (tick.gate = "open" /\ tick.enabledAtGate /\ ~tick.quietAtGate)

\* A tone is played inside the quiet window by a tick that began before it.
C2_Witness == last.backend # "none" /\ last.quiet /\ ~tick.quietAtGate

\* C3: a tick that finds the daemon disabled or the clock in quiet hours at
\* its gate sleeps 2 seconds and nothing else: the profile is not read, no
\* pattern function and no sound-file player runs, no backend is run.
C3_GatedTickSleeps ==
    (tick.gate # "none" /\ (~tick.enabledAtGate \/ tick.quietAtGate)) =>
        /\ tick.gate = "closed"
        /\ pc = "sleep"
        /\ sleep = [kind |-> "gate", ms |-> 2 * 1000]
        /\ tick.sleeps = 1
        /\ ~tick.profileRead
        /\ tick.ran = "none" /\ profile = "none" /\ todo = <<>>
        /\ ~tick.invoked /\ tick.tones = 0 /\ last = NoCall

\* An enabled daemon sleeps at the gate because of the quiet hours.
C3_Witness ==
    /\ tick.gate = "closed" /\ tick.enabledAtGate /\ tick.quietAtGate
    /\ pc = "sleep" /\ sleep.kind = "gate"

\* C4: when the mode resolves to pcspkr and beep fails, times out or is
\* missing, play_sound returns without raising and the tone has gone to
\* the audio backend, whose result play_pcspkr returns.
C4_FallsBackToAudio ==
    (fin.op = "play_sound" /\ fout.mode = "pcspkr" /\ fin.beep # "ok") =>
        /\ fout.out = "ok"
        /\ fout.fallback
        /\ fout.ret = play_audio(440, 100, config, fin.host, fin.outs).ret

\* The keys whose values the daemon hands to float(), to int() and to
\* to_minutes().
FloatKeys ==
    {k \in DOMAIN DEFAULT_CONFIG : IsIntervalKey(k)}
        \cup {"AUDIO_GAIN", "SOUNDS_DURATION_MIN", "SOUNDS_DURATION_MAX"}
IntKeys == {k \in DOMAIN DEFAULT_CONFIG : IsBeepsKey(k)} \cup {"RANDOM_AUDIO_PERCENT"}
TimeKeys == {"QUIET_START", "QUIET_END"}

\* C5: the config a tick works with holds, for every numeric and time key,
\* a value that parses (the default where the file's value does not), and
\* no tick ends in a ValueError.
C5_UnparsableFallsBack ==
    /\ exc # "ValueError"
    /\ \A k \in FloatKeys : ParseFloat(config[k]).out = "ok"
    /\ \A k \in IntKeys : ParseInt(config[k]).out = "ok"
    /\ \A k \in TimeKeys : to_minutes(config[k]).out = "ok"

\* C6: with neither the beeper nor audio hardware, pick_output_mode returns
\* "none" for every requested mode and play_sound runs no backend and does
\* not raise.
C6_NoOutputNoSound ==
    (fin.op \in {"pick_output_mode", "play_sound"}
        /\ ~has_pcspkr(fin.host) /\ ~has_audio(fin.host)) =>
        IF fin.op = "pick_output_mode"
        THEN fout = [out |-> "ok", mode |-> "none", drew |-> FALSE]
        ELSE fout.out = "ok" /\ fout.mode = "none" /\ fout.backend = "none" /\ ~fout.ret

\* play_sound in random mode, with a percent that is no number, on a host
\* with no output.
C6_Witness ==
    /\ fin.op = "play_sound" /\ fin.mode = "random" /\ fin.percent = "half"
    /\ ~has_pcspkr(fin.host) /\ ~has_audio(fin.host)
    /\ fout.backend = "none"

\* C7: mode pcspkr resolves to pcspkr if the beeper is available, else to
\* audio if available, else to none; mode audio to audio, else pcspkr, else
\* none; a mode other than pcspkr, audio, random to none; the resolved mode
\* is never an output that is unavailable.
C7_ResolutionTable ==
    fin.op = "pick_output_mode" =>
        LET b == has_pcspkr(fin.host)
            a == has_audio(fin.host)
        IN  /\ fin.mode = "pcspkr" =>
                   fout.mode = IF b THEN "pcspkr" ELSE IF a THEN "audio" ELSE "none"
            /\ fin.mode = "audio" =>
                   fout.mode = IF a THEN "audio" ELSE IF b THEN "pcspkr" ELSE "none"
            /\ fin.mode \notin {"pcspkr", "audio", "random"} => fout.mode = "none"
            /\ fin.mode # "random" => fout.out = "ok" /\ ~fout.drew
            /\ fout.mode = "pcspkr" => b
            /\ fout.mode = "audio" => a

\* The beeper is asked for and is not there: audio is chosen.
C7_Witness ==
    /\ fin.op = "pick_output_mode" /\ fin.mode = "pcspkr"
    /\ ~has_pcspkr(fin.host) /\ has_audio(fin.host)
    /\ fout.mode = "audio"

\* Random mode for a draw out of the set range: with both outputs and an
\* integer percent a draw is made, it lies in range, and audio is chosen
\* iff draw < percent, else pcspkr; with one output that one is chosen
\* without a draw; with none, none.
RandomMode(range) ==
    (fin.op = "pick_output_mode" /\ fin.mode = "random") =>
        LET b == has_pcspkr(fin.host)
            a == has_audio(fin.host)
        IN  /\ (b /\ a /\ fin.percent.int) =>
                   /\ fout.out = "ok" /\ fout.drew
                   /\ fin.draw \in range
                   /\ fout.mode = IF fin.draw < fin.percent.p THEN "audio" ELSE "pcspkr"
            /\ (b /\ ~a) => fout = [out |-> "ok", mode |-> "pcspkr", drew |-> FALSE]
            /\ (~b /\ a) => fout = [out |-> "ok", mode |-> "audio", drew |-> FALSE]
            /\ (~b /\ ~a) => fout = [out |-> "ok", mode |-> "none", drew |-> FALSE]

\* C8, as stated: in random mode with both outputs the draw is one of 0..98.
C8_HalfOpenDraw == RandomMode(0..98)

\* C8, amended: in random mode with both outputs the draw is one of 0..99,
\* both ends included; the rest as stated; a percent that is no integer
\* makes the call raise ValueError before any draw.
C8_ClosedDraw ==
    /\ RandomMode(0..99)
    /\ (fin.op = "pick_output_mode" /\ fin.mode = "random" /\ ~fin.percent.int
           /\ has_pcspkr(fin.host) /\ has_audio(fin.host)) =>
          (fout.out = "ValueError" /\ ~fout.drew)

\* The draw is 99 and the percent is 99: the beeper is chosen.
C8_Witness ==
    /\ fin.op = "pick_output_mode" /\ fin.mode = "random" /\ fout.drew
    /\ fin.draw = 99 /\ fin.percent.p = 99 /\ fout.mode = "pcspkr"

\* C9: for every percent p in 0..100, in random mode with both outputs,
\* exactly p of the 100 equally likely draws give audio: none for p = 0,
\* all for p = 100.
C9_AudioShare ==
    fin.op = "draws" =>
        /\ Cardinality(fout.audio) * 100 = fin.p * Cardinality(fout.draws)
        /\ Cardinality(fout.audio) = fin.p
        /\ fin.p = 0 => fout.audio = {}
        /\ fin.p = 100 => fout.audio = fout.draws

\* 70 of the draws give audio at 70 percent.
C9_Witness == fin.op = "draws" /\ fin.p = 70 /\ Cardinality(fout.audio) = 70

\* C10: in_quiet_hours is false when QUIET_ENABLED is not "1"; otherwise
\* true when start = end, start <= now < end when start < end, and
\* now >= start or now < end when start > end.  With 22:00 to 07:00 it is
\* quiet at 23:30 and 06:59, not at 12:00 and 07:00.
C10_QuietWindow ==
    fin.op = "in_quiet_hours" =>
        /\ fout.out = "ok"
        /\ fout.val =
              IF fin.enabled # "1" THEN FALSE
              ELSE IF fin.start = fin.end THEN TRUE
              ELSE IF fin.start < fin.end
              THEN fin.start <= fin.now /\ fin.now < fin.end
              ELSE fin.now >= fin.start \/ fin.now < fin.end
        /\ (fin.enabled = "1" /\ fin.start = 22 * 60 /\ fin.end = 7 * 60) =>
              /\ fin.now = 23 * 60 + 30 => fout.val
              /\ fin.now = 6 * 60 + 59 => fout.val
              /\ fin.now = 12 * 60 => ~fout.val
              /\ fin.now = 7 * 60 => ~fout.val

\* It is quiet at 06:59 in the window 22:00 to 07:00.
C10_Witness ==
    /\ fin.op = "in_quiet_hours" /\ fin.enabled = "1"
    /\ fin.start = 22 * 60 /\ fin.end = 7 * 60 /\ fin.now = 6 * 60 + 59
    /\ fout.val

\* C11: get_enabled_variations returns a non-empty list of numbers in 0..9:
\* 0..9 for "all" in any case and for the empty string; for a comma list
\* the numbers of it that lie in 0..9, or 0..9 when none does or when an
\* entry is no number; "2,5" gives {2, 5} and "3,99,-1" gives {3}.
C11_EnabledVariations ==
    fin.op = "get_enabled_variations" =>
        LET got == {fout[i] : i \in 1..Len(fout)}
            l == fin.entries
            bad == \E i \in 1..Len(l) : l[i].kind = "bad"
            inRange == {l[i].val : i \in {j \in 1..Len(l) : l[j].kind = "int"}} \cap (0..9)
            texts == [i \in 1..Len(l) |-> l[i].text]
        IN  /\ got # {} /\ got \subseteq 0..9
            /\ fin.word # "none" => got = 0..9
            /\ fin.word = "none" =>
                   got = IF bad \/ inRange = {} THEN 0..9 ELSE inRange
            /\ texts = <<"">> => got = 0..9
            /\ texts = <<"2", "5">> => got = {2, 5}
            /\ texts = <<"3", "99", "-1">> => got = {3}

\* "3,99,-1" is read for the modem profile and gives the list of 3 alone.
C11_Witness ==
    /\ fin.op = "get_enabled_variations" /\ fin.profile = "modem"
    /\ Len(fin.entries) = 3
    /\ fin.entries[1].text = "3" /\ fin.entries[2].text = "99"
    /\ fin.entries[3].text = "-1"
    /\ fout = <<3>>

\* C12: in every tick, for every profile, the pattern the pattern function
\* chose is the base pattern at an index of the enabled-variation set read
\* from this tick's config, and what it plays are tones of that pattern.
C12_ChosenIsEnabled ==
    (tick.ran \in Profiles /\ tick.variation # -1) =>
        LET table == IF tick.ran = "wopr" THEN WOPR_PATTERNS ELSE AmbientTable(tick.ran)
            base == table[tick.variation]
            enabled == get_enabled_variations(config, tick.ran)
        IN  /\ tick.variation \in {enabled[i] : i \in 1..Len(enabled)}
            /\ \A i \in 1..Len(todo) :
                  \E j \in 1..Len(base) :
                     /\ todo[i].freq = base[j].freq
                     /\ todo[i].dur = base[j].dur
                     /\ todo[i].ms = base[j].ms

\* WOPR with variations 2 and 5 enabled has chosen pattern 5 and is playing.
C12_Witness ==
    /\ tick.ran = "wopr" /\ tick.variation = 5 /\ tick.tones > 0
    /\ Get(config, "WOPR_ENABLED_VARIATIONS", "all") = "2,5"

\* C13: for numeric interval bounds, load_config holds each bound clamped
\* into 1..100 minutes, and the pause slept after the pattern lies between
\* 60 times the one clamped bound and 60 times the other, in seconds: never
\* under 60 s, never over 6000 s.
C13_IntervalClamped ==
    (fin.op = "interval_sleep" /\ fin.min.num /\ fin.max.num) =>
        LET lo == IF fin.min.val < 1000 THEN 1000
                  ELSE IF fin.min.val > 100000 THEN 100000 ELSE fin.min.val
            hi == IF fin.max.val < 1000 THEN 1000
                  ELSE IF fin.max.val > 100000 THEN 100000 ELSE fin.max.val
        IN  /\ fout.out = "ok"
            /\ ParseFloat(fout.min) = [out |-> "ok", kind |-> "num", val |-> lo]
            /\ ParseFloat(fout.max) = [out |-> "ok", kind |-> "num", val |-> hi]
            /\ \/ 60 * lo <= fout.ms /\ fout.ms <= 60 * hi
               \/ 60 * hi <= fout.ms /\ fout.ms <= 60 * lo
            /\ 60 * 1000 <= fout.ms /\ fout.ms <= 6000 * 1000

\* Bounds of 0.003 and 250 minutes: the pause is 6000 seconds.
C13_Witness ==
    /\ fin.op = "interval_sleep" /\ fin.profile = "wopr"
    /\ fin.min.text = "0.003" /\ fin.max.text = "250"
    /\ fout.out = "ok" /\ fout.ms = 6000 * 1000

\* C14: for every base beep of the WOPR table, every frequency offset in
\* -200..200 and every duration multiplier in 0.2..5.0, the tone handed to
\* play_sound has a frequency in 100..3000 Hz and a duration in 10..800 ms.
C14_JitterBounds ==
    fin.op = "jitter" =>
        /\ 100 <= fout.freq /\ fout.freq <= 3000
        /\ 10 <= fout.dur /\ fout.dur <= 800

\* The 200 ms beep at five times its length is cut to 800 ms.
C14_Witness ==
    /\ fin.op = "jitter" /\ fin.dur = 200 /\ fin.mult = 50
    /\ fout.dur = 800

\* C15: while the tick's config has SOUNDS_ENABLED other than "1",
\* pattern_soundfiles is not run: no file is listed or chosen, play_sound_file
\* is not called, no sound-file interval is slept, and a tick that passes
\* the gate reads the profile and runs its pattern function.
C15_SoundsOffNoFiles ==
    Get(config, "SOUNDS_ENABLED", "") # "1" =>
        /\ tick.ran # "sounds" /\ profile # "sounds"
        /\ \A i \in 1..Len(todo) : todo[i].kind # "file"
        /\ last.mode # "file"
        /\ pc # "done"
        /\ tick.gate = "open" => (tick.profileRead /\ tick.ran \in Profiles)

\* With the sound files off, a tick has run the profile's pattern and is
\* in the interval sleep that follows it.
C15_Witness ==
    /\ Get(config, "SOUNDS_ENABLED", "") = "0"
    /\ tick.gate = "open" /\ tick.ran = "mainframe" /\ tick.tones > 0
    /\ pc = "sleep" /\ sleep.kind = "interval"

\* C16: play_sound_file with audio hardware and a resolved mode other than
\* pcspkr returns true from the first player, in the order ffplay, mpg123
\* (.mp3), paplay, aplay (.wav), that is installed and plays; when no
\* player is installed or none plays, the file goes to the pseudo-beep
\* path if the beeper is available, and otherwise the call does nothing
\* and returns false.
C16_PlayersThenBeeps ==
    (fin.op = "play_sound_file" /\ has_audio(fin.host) /\ fin.picked # "pcspkr") =>
        LET h == fin.host
            lower == Lower(fin.name)
            Plays(outs) == \E i \in 1..Len(outs) : outs[i] = "ok"
            ff == "ffplay" \in h.players /\ Plays(fin.runs.ffplay)
            mp3 == "mpg123" \in h.players /\ EndsWith(lower, ".mp3")
                      /\ Plays(fin.runs.mpg123)
            pa == "paplay" \in h.players /\ fin.runs.paplay = "ok"
            wav == "aplay" \in h.players /\ EndsWith(lower, ".wav")
                      /\ Plays(fin.runs.aplay)
        IN  /\ fout.out = "ok"
            /\ IF ff THEN fout.ret /\ fout.backend = "ffplay"
               ELSE IF mp3 THEN fout.ret /\ fout.backend = "mpg123"
               ELSE IF pa THEN fout.ret /\ fout.backend = "paplay"
               ELSE IF wav THEN fout.ret /\ fout.backend = "aplay"
               ELSE IF has_pcspkr(h) THEN fout.backend = "beep"
               ELSE ~fout.ret /\ fout.backend # "beep"

\* C17: play_sound_file returns a boolean and does not raise, whatever
\* players are installed and however their runs end.
C17_FilePlayerNeverRaises ==
    fin.op = "play_sound_file" => (fout.out = "ok" /\ fout.ret \in BOOLEAN)

\* C18: a SIGTERM or SIGINT delivered once the handlers are installed,
\* wherever main() is (between ticks, at the gate, inside a pattern, in a
\* sleep), ends the process with status 0 in that step, and nothing follows:
\* no backend call, no tick.
C18_SignalExits ==
    [][exc' = "SystemExit" =>
          /\ pc' = "exited"
          /\ tick' = NoTick /\ last' = NoCall /\ todo' = <<>> /\ profile' = "none"
          /\ pc = "exited" => UNCHANGED vars]_vars

\* The process has exited on a signal.
C18_Witness == pc = "exited" /\ exc = "SystemExit"

\* C19: every external program the daemon runs is bounded by a timeout, so
\* main() is never held for ever in a call, also when a tool never exits.
C19_EveryCallBounded == pc # "blocked"

\* C20: whatever the config file held before, after retro-sfxctl writes a
\* key through update_config the daemon's next load_config returns for
\* that key the value written, without its double quotes and clamped.
C20_WriteThenRead == fin.op = "update_config" => fout = fin.read

\* C21: a retro-sfxctl setter called with an invalid argument (a profile or
\* output mode outside its list, a percent outside 0..100, a time that is
\* not HH:MM 24-hour, variations that are neither "all" nor a comma list of
\* integers 0..9) exits with status 2 and leaves the profile file, the
\* enabled file and the config file as they were.
C21_InvalidRejected ==
    (fin.op = "retro-sfxctl" /\ ~fin.cmd.valid) =>
        /\ fout = 2
        /\ profileFile = fin.files.profile
        /\ enabledFile = fin.files.enabled
        /\ confFile = fin.files.conf

\* How often the tone t occurs in the list of tones s.
Count(s, t) == Cardinality({i \in 1..Len(s) : s[i] = t})

\* C22: in pattern_wopr with drawn beep count n and chosen base pattern P,
\* a one-beep P gives exactly n tones, each that beep; a longer P gives
\* exactly min(n, 3 x |P|) tones whose base beeps form a sub-multiset of
\* three copies of P.
C22_TonesOfPattern ==
    (fin.op = "pattern_wopr" /\ fout.n > 0) =>
        LET P == WOPR_PATTERNS[fout.variation]
        IN  IF Len(P) = 1
            THEN Len(fout.calls) = fout.n
                 /\ \A i \in 1..Len(fout.calls) : fout.calls[i] = P[1]
            ELSE Len(fout.calls) = Min(fout.n, 3 * Len(P))
                 /\ \A t \in Elems(fout.calls) : Count(fout.calls, t) <= 3 * Count(P, t)

\* C23: for every integer WOPR_BEEPS_MIN and WOPR_BEEPS_MAX, load_config
\* clamps both into [1,20] and pattern_wopr draws a beep count between the
\* clamped bounds; the draw does not fail.
C23_BeepCountDrawn ==
    fin.op = "pattern_wopr" =>
        LET lo == ParseInt(load_config(fin.file)["WOPR_BEEPS_MIN"])
            hi == ParseInt(load_config(fin.file)["WOPR_BEEPS_MAX"])
        IN  /\ lo.out = "ok" /\ lo.val \in 1..20
            /\ hi.out = "ok" /\ hi.val \in 1..20
            /\ fout.out # "ValueError"
            /\ fout.n \in 1..20
            /\ lo.val <= fout.n /\ fout.n <= hi.val

\* C24: in every tick that passes the gate exactly one of two things runs,
\* never both and never neither: pattern_soundfiles (only with
\* SOUNDS_ENABLED "1" and the 1-in-10 draw hitting, and then the profile
\* is not read), or the pattern function of the profile read_profile
\* returns; and nothing else is run later in the same tick.
C24_OneFunctionPerTick ==
    [][/\ (tick.gate # "open" /\ tick'.gate = "open") =>
             \/ /\ tick'.ran = "sounds"
                /\ ~tick'.profileRead
                /\ Get(config, "SOUNDS_ENABLED", "") = "1"
             \/ /\ tick'.ran \in {"wopr", "mainframe", "aliensterm", "modem"}
                /\ tick'.profileRead
                /\ tick'.ran = read_profile(profileFile)
       /\ (tick.gate = "open" /\ tick'.gate = "open") =>
             /\ tick'.ran = tick.ran
             /\ tick'.profileRead = tick.profileRead
             /\ profile' = profile]_vars

C24_Witness ==
    /\ tick.gate = "open"
    /\ tick.ran = "sounds"
    /\ tick.tones = 1
    /\ pc = "sleep"

\* C25: once pattern_soundfiles has chosen a file and attempted to play
\* it, it goes on to exactly one sleep of a duration within
\* [SOUNDS_INTERVAL_MIN, SOUNDS_INTERVAL_MAX] x 60 seconds, whatever way
\* the playback went; with no playable file it returns without playing.
C25_SleepAfterFile ==
    /\ (tick.ran = "sounds" /\ tick.tones > 0) =>
          /\ pc \in {"play", "sleep"}
          /\ pc = "sleep" =>
                /\ tick.sleeps = 1
                /\ sleep.kind = "interval"
                /\ ParseFloat(config["SOUNDS_INTERVAL_MIN"]).val * 60 <= sleep.ms
                /\ sleep.ms <= ParseFloat(config["SOUNDS_INTERVAL_MAX"]).val * 60
    /\ (tick.ran = "sounds" /\ get_sound_files(host.files) = <<>> /\ pc = "done") =>
          tick.tones = 0 /\ tick.sleeps = 0

C27_AmbientAsTabled ==
    [][/\ (tick.gate # "open" /\ tick'.gate = "open"
           /\ tick'.ran \in {"mainframe", "aliensterm", "modem"}) =>
             pc' = "play" /\ todo' = AmbientTable(tick'.ran)[tick'.variation]
       /\ (profile \in {"mainframe", "aliensterm", "modem"}
           /\ tick'.tones = tick.tones + 1) =>
             /\ last'.freq = Head(todo).freq
             /\ last'.backend # "none" => last'.sent = Head(todo).dur
             /\ todo' = Tail(todo)
       /\ (profile \in {"mainframe", "aliensterm", "modem"} /\ pc = "play"
           /\ todo = <<>> /\ pc' # "play" /\ exc' # "SystemExit") =>
             pc' = "sleep" /\ sleep'.kind = "interval" /\ tick'.sleeps = 1]_vars

\* C28: with a profile's interval keys absent from the config file (or no
\* config file), the pause after its pattern is drawn from the built-in
\* range, in minutes: wopr 0.003..0.025, mainframe 0.067..0.183, aliensterm
\* 0.003..0.015, modem 0.017..0.067.
C28_DefaultIntervals ==
    (fin.op = "default_sleep" /\ fin.profile # "sounds") =>
        LET lo == CASE fin.profile = "wopr" -> 3 [] fin.profile = "mainframe" -> 67
                    [] fin.profile = "aliensterm" -> 3 [] fin.profile = "modem" -> 17
            hi == CASE fin.profile = "wopr" -> 25 [] fin.profile = "mainframe" -> 183
                    [] fin.profile = "aliensterm" -> 15 [] fin.profile = "modem" -> 67
        IN  fout.out = "ok" /\ 60 * lo <= fout.ms /\ fout.ms <= 60 * hi

\* C29: the output mode is resolved anew for every tone and every sound
\* file: each call's mode is one that pick_output_mode gives on the
\* hardware as it is at that call, whatever it was at earlier calls of the
\* pattern, and a sound file goes only to a backend that hardware has.
C29_ResolvedPerCall ==
    [][(tick'.tones = tick.tones + 1) =>
          IF last'.mode = "file"
          THEN /\ last'.backend = "beep" => has_pcspkr(host)
               /\ last'.backend \notin {"none", "beep"} => has_audio(host)
          ELSE /\ \/ \E d \in {0, 99} : last'.mode = pick_output_mode(config, host, d).mode
                  \/ \E d \in ModeDraws : last'.mode = pick_output_mode(config, host, d).mode
               /\ last'.backend = "beep" => has_pcspkr(host)
               /\ last'.backend = "aplay" => has_audio(host)]_vars

C29_Witness ==
    /\ tick.tones = 2
    /\ Get(config, "OUTPUT_MODE", "random") = "pcspkr"
    /\ last.before = "pcspkr"
    /\ last.mode = "audio"
    /\ ~has_pcspkr(host)

\* C30: a tick decides on what the files hold when it starts, never on what
\* an earlier tick read.  The config it works with is the config file as it
\* stands when the tick loads it; the tick passes its gate only if the
\* enabled flag does not then read as off; the profile it dispatches on is
\* the profile file as it then stands; config and profile stay as read
\* until the tick ends, whatever retro-sfxctl writes meanwhile; and a
\* backend is invoked only in a tick that found the flag on at its gate, so
\* no tick that starts while the flag is "0" plays anything.
C30_TickReadsAnew ==
    [][/\ (pc = "loop" /\ pc' = "gate") => config' = load_config(confFile)
       /\ (pc = "gate" /\ tick'.gate = "open") =>
              ~(enabledFile.exists /\ Strip(enabledFile.text) # "1")
       /\ (pc = "gate" /\ tick'.profileRead) =>
              /\ profile' \in {"wopr", "mainframe", "aliensterm", "modem"}
              /\ profileFile.exists /\ Strip(profileFile.text) \in
                     {"wopr", "mainframe", "aliensterm", "modem"}
                 => profile' = Strip(profileFile.text)
       /\ (pc \in {"gate", "play", "sleep", "done"}) => config' = config
       /\ (pc = "play" /\ pc' \in {"play", "sleep", "done"}) => profile' = profile
       /\ (tick'.tones > tick.tones \/ (tick'.invoked /\ ~tick.invoked)) =>
              tick.gate = "open" /\ tick.enabledAtGate]_vars

\* A tick gated after retro-sfxctl switched off a daemon installed switched
\* on with the wopr profile.
C30_Witness ==
    /\ pc = "sleep"
    /\ events = 1
    /\ enabledFile = File("0")
    /\ profileFile = File("wopr")
    /\ tick.gate = "closed"
    /\ ~tick.enabledAtGate
    /\ ~tick.invoked
    /\ tick.tones = 0

\* C31: at no time do two programs started for the daemon have the audio
\* device open: when an attempt or a tone starts its program, the program
\* of every earlier attempt has ended, also after a timeout or a failure.
C31_OneOnDevice ==
    fin # NoFun => Cardinality({p \in fout.procs : p.device}) <= 1

\* C32 as stated: every tick that is followed by another one has slept at
\* least once (the gate sleep or an interval sleep) before the next begins.
C32_EveryTickSleeps ==
    [][(pc \in {"sleep", "done"} /\ pc' = "loop") =>
          /\ tick.sleeps >= 1
          /\ sleep.kind \in {"gate", "interval"}]_vars

\* C32, amended: a tick that is followed by another one has slept once,
\* 2 seconds at the gate or an interval after its pattern or sound file,
\* unless it was sent to the sound files and found no playable file in the
\* sounds directory: that tick plays nothing, does not sleep, and the next
\* tick begins at once.
C32_SleepsUnlessNoFile ==
    [][/\ (pc \in {"sleep", "done"} /\ pc' = "loop") =>
             \/ tick.sleeps = 1 /\ sleep.kind \in {"gate", "interval"}
             \/ /\ pc = "done"
                /\ tick.ran = "sounds"
                /\ tick.sleeps = 0 /\ tick.tones = 0 /\ ~tick.invoked
       /\ (pc = "gate" /\ pc' = "done") =>
             /\ tick'.ran = "sounds"
             /\ Get(config, "SOUNDS_ENABLED", "") = "1"
             /\ get_sound_files(host.files) = <<>>]_vars

\* A tick sent to the sound files of a directory without a playable file
\* has returned without a sleep.
C32_Witness ==
    /\ pc = "done"
    /\ tick.gate = "open" /\ tick.ran = "sounds"
    /\ tick.sleeps = 0 /\ tick.tones = 0
    /\ host.files # <<>> /\ get_sound_files(host.files) = <<>>

\* C33: the preview script and the daemon derive the same beeps from every
\* file and duration, and for a duration of 1 to 30 seconds the daemon's
\* beeper loop plays all of them, as the script does.
C33_PreviewAsDaemon ==
    fin.op = "preview" =>
        /\ fout.preview = fout.daemon
        /\ fout.heard.n = Len(fout.preview)
        /\ fin.duration \in (1 * 1000)..(30 * 1000) =>
              /\ fout.played.out = "ok"
              /\ fout.played.n = Len(fout.daemon)

\* C34: update_config(key, value) touches that key only: the daemon's
\* load_config returns for every other key what it returned before the
\* write, no other key appears or disappears, and the lines of the file
\* other than the key's own are all there afterwards, in their order.
C34_OnlyThatKey ==
    fin.op = "update_config" =>
        LET Same(before, after) ==
                \A k \in (DOMAIN before \cup DOMAIN after) \ {fin.key} :
                    k \in DOMAIN before /\ k \in DOMAIN after /\ after[k] = before[k]
            Other(line) == ~StartsWith(line, fin.key \o "=")
            Kept(was, is) == SelectSeq(was, Other) = SelectSeq(is, Other)
        IN  /\ Same(load_config(fin.prior), config)
            /\ fin.prior.exists =>
                  Kept(SplitLines(fin.prior.text), SplitLines(confFile.text))

\* C35: the tool and the daemon know the same profiles.  A profile name
\* read_profile accepts is written to the profile file by "retro-sfxctl
\* profile" and its variations, given as "all" or as numbers 0..9, are
\* written by "retro-sfxctl variations"; and a name the tool writes is the
\* profile the daemon then reads.
C35_SameProfiles ==
    fin.op = "retro-sfxctl" =>
        LET Accepted(name) == read_profile(File(name)) = name
            Listed(v) == Lower(v) = "all" \/ ValidNumbers(Split(v, ","))
        IN  /\ (fin.cmd.name = "profile" /\ Accepted(fin.cmd.a)) =>
                  fout = 0 /\ read_profile(profileFile) = fin.cmd.a
            /\ (fin.cmd.name = "variations" /\ Accepted(fin.cmd.a) /\ Listed(fin.cmd.b)) =>
                  /\ fout = 0
                  /\ Get(load_config(confFile),
                         Upper(fin.cmd.a) \o "_ENABLED_VARIATIONS", "") = fin.cmd.b
            /\ (fin.cmd.name = "profile" /\ fout = 0) =>
                  profileFile = File(fin.cmd.a) /\ read_profile(profileFile) = fin.cmd.a

====
